---------------------------- MODULE Spec2Model ----------------------------
(***************************************************************************)
(* A model of grokify/omniproxy's intercept-capture-persist pipeline.      *)
(*                                                                         *)
(*   SpecAsync : pkg/backend/dburl.go, AsyncTrafficStoreWrapper: callers   *)
(*               of Store, the worker pool, Close and Flush, in front of   *)
(*               an inner TrafficStore.                                    *)
(*   SpecProxy : the proxy engine (Proxy.setupMITM, Proxy.setupCapture,    *)
(*               matchWildcard) with pkg/capture's Capturer and Filter:    *)
(*               CONNECT decisions and request/response capture.           *)
(*   SpecTTL   : MemoryCertCache, the TTL leaf cache: Get, Set, Delete,    *)
(*               Clear and the background cleanup, under a clock.          *)
(*   SpecLRU   : LRUCertCache, the LRU leaf cache and its linked list.     *)
(*   SpecStore : the concrete stores, FileTrafficStore and                 *)
(*               DatabaseTrafficStore: Store, StoreBatch, the queries and  *)
(*               Close, called from concurrent goroutines.                 *)
(*   SpecCapture : what Capturer.StartCapture and FinishCapture put in a   *)
(*               Record for one message: its headers and its body.         *)
(*   SpecCA    : pkg/ca, LoadOrCreate, Load and CA.Save on the two CA      *)
(*               files, called by concurrent processes that may crash.     *)
(*   SpecHealth : pkg/observability, HealthChecker: SetReady,              *)
(*               RegisterCheck and the /readyz handler.                    *)
(*   SpecQuery : DatabaseTrafficStore.Query, Count and Stats over a table  *)
(*               of traffic rows.                                          *)
(*   SpecServe : cmd/omniproxy, runServe with --format har or ndjson: the  *)
(*               Capturer's output, the HARWriter, the traffic store and   *)
(*               shutdown.                                                 *)
(*   SpecSampling : pkg/backend/dburl.go, SamplingTrafficStore: Store and  *)
(*               shouldSample under concurrent callers.                    *)
(*   SpecFilter : pkg/capture/filter.go, Filter.MatchRequest and a         *)
(*               compiled wildcard pattern, each on bounded inputs.        *)
(*   SpecUTF8  : the content classifier's isValidUTF8 on bounded byte      *)
(*               sequences.                                                *)
(*   SpecOpen  : NewDatabaseTrafficStore's ensureDefaultOrg and            *)
(*               ensureDefaultProxy, run by concurrent openers of one      *)
(*               database.                                                 *)
(*   SpecDaemon : cmd/omniproxy/system.go, Daemon: Start, Stop and Status  *)
(*               called from concurrent goroutines, with the PID file and  *)
(*               the control socket.                                       *)
(*                                                                         *)
(* Every goroutine is a process with a program counter; one action is one  *)
(* atomic step of the Go code (a critical section, a channel operation, a  *)
(* call into the inner store or its return).                               *)
(***************************************************************************)
EXTENDS Integers, Sequences, FiniteSets, TLC

(***************************************************************************)
(* Bounds of the model.                                                    *)
(***************************************************************************)
\* cfg.QueueSize: capacity of the wrapper's channel.
QueueSize == 1
\* cfg.BatchSize: records a worker collects before it calls StoreBatch.
BatchSize == 2
\* Number of Store calls made in a run; each call carries a fresh record.
MaxRecords == 2

\* The goroutines calling Store, and the worker goroutines (cfg.Workers).
Callers == {"c1", "c2"}
Workers == {"w1", "w2"}
Recs == 1..MaxRecords

VARIABLES
    \* ---- AsyncTrafficStoreWrapper ----
    queue,          \* w.queue: the buffered channel, oldest record first
    stopped,        \* w.stopped
    stopChanClosed, \* whether close(w.stopChan) has run
    wpc,            \* per worker: position in worker()
    batch,          \* per worker: its local batch slice
    caller,         \* per caller of Store: position, argument, what happened
    nextRec,        \* the next fresh record
    cpc,            \* position of the goroutine calling Close
    fpc,            \* position of the goroutine calling Flush
    panicked,       \* a goroutine panicked: the process is gone
    \* ---- the inner TrafficStore and the Metrics ----
    innerCloseCalls, \* calls of w.store.Close()
    handed,          \* per record: times it was passed to w.store.StoreBatch
    completed,       \* records whose StoreBatch call has returned
    lateBatch,       \* a StoreBatch call was issued after w.store.Close()
    storeErrors,     \* Metrics.IncStoreError calls
    storeSuccess,    \* Metrics.IncStoreSuccess calls
    \* ---- history ----
    accepted,       \* records Store has placed in the queue
    flushSnap,      \* the accepted records when Flush was called; once its
                    \* context has expired, those of them still in the queue
    closeSnap,      \* what the first Close call found
    \* ---- Proxy and Capturer ----
    cfg,            \* proxy.Config and capture.Config, fixed at construction
    txn,            \* per client transaction: position, request, response
    records,        \* Capturer.records
    handlerCalls,   \* per registered Handler and transaction: invocations
    output,         \* what writeRecord wrote to Capturer.output
    leaves,         \* hosts for which a leaf certificate was signed
    \* ---- MemoryCertCache ----
    certs,          \* c.certs: per host, the entry or none
    now,            \* time.Now()
    getter,         \* per goroutine calling Get: position, locals, result
    sweeper,        \* the cleanup goroutine: position and its expired list
    live,           \* history: per host, the last Set not followed by Delete or Clear
    \* ---- LRUCertCache ----
    lru,            \* c.items with each entry's prev and next, c.head, c.tail
    lruAccess,      \* history: the cached hosts, most recently accessed first
    lruLast,        \* history: the last operation and what it found and removed
    \* ---- FileTrafficStore and DatabaseTrafficStore ----
    fsKind,         \* how the file store's writer was chosen: a path or a supplied writer
    fsFileClosed,   \* whether s.file, the *os.File, has been closed
    fsWritten,      \* the records written to s.writer
    dbClosed,       \* s.closed
    dbClientCloses, \* calls of s.client.Close()
    dbRows,         \* the rows of the traffic table
    sop,            \* per goroutine using a store: its call and what it returned
    sopCount,       \* calls made so far
    closeDone,      \* history: per store, whether a Close call has returned
    stErrors,       \* per store: Metrics.IncStoreError calls
    stSuccess,      \* per store: Metrics.IncStoreSuccess calls
    \* ---- Capturer, one message ----
    capIn,          \* the capture.Config and the request or response captured
    capOut,         \* the RequestRecord or ResponseRecord built from it
    \* ---- ca.LoadOrCreate and the two CA files ----
    caCert,         \* the file at certPath: absent, or the CA whose certificate it holds
    caKey,          \* the file at keyPath: absent, or the CA whose key it holds
    caProc,         \* per process calling LoadOrCreate: position, locals, result
    nextCA,         \* the next CA that New generates
    \* ---- observability.HealthChecker ----
    hReady,         \* h.ready
    hChecks,        \* h.checks: the names registered
    hHealth,        \* per name: what the registered check function returns now
    hReq,           \* the goroutine serving GET /readyz: position, locals, response
    \* ---- DatabaseTrafficStore, the query side ----
    qTable,         \* the rows of the traffic table, by id
    qLog,           \* the Query calls of the client now paging: filter and result
    qStats,         \* the Stats call just made, if it was the last call: filter and result
    \* ---- runServe with --format har ----
    srvOpts,        \* opts.output and opts.db: whether each is set
    srvPhase,       \* running, or how far the shutdown goroutine has come
    srvCaptured,    \* the Records captured so far
    harEntries,     \* HARWriter.entries
    srvPending,     \* records the store handler has handed to the traffic store
    srvOut,         \* the writes made to the output (the file, or stdout), in order
    \* ---- SamplingTrafficStore ----
    smpCfg,         \* s.sampleRate, s.alwaysCapture, s.neverCapture
    smpCounter,     \* s.counter
    smpCall,        \* per goroutine calling Store: position, host, locals, outcome
    smpLog,         \* history: per counter value, what became of the record counted
    \* ---- capture.Filter, one call ----
    fltIn,          \* the Filter (or one pattern) and the values it is asked about
    fltOut,         \* what MatchRequest (or the pattern's MatchString) returned
    \* ---- contentdetect.isValidUTF8, one call ----
    utfIn,          \* the data passed to isValidUTF8: bytes, or none yet
    utfOut,         \* what isValidUTF8 returned
    \* ---- Daemon (cmd/omniproxy/system.go) ----
    daemon,       \* the Daemon's fields and its two files
    dmnCall,      \* per caller: the Start or Stop call in progress
    \* ---- NewDatabaseTrafficStore: the org and proxy tables ----
    openDb,       \* the rows of the orgs and proxies tables with the default slug and the configured name
    opener        \* per process opening a store: position, the org it holds, result

asyncVars == <<queue, stopped, stopChanClosed, wpc, batch, caller, nextRec, cpc,
               fpc, panicked, innerCloseCalls, handed, lateBatch, storeErrors, storeSuccess, flushSnap, closeSnap,
               accepted, completed>>

proxyVars == <<cfg, txn, records, handlerCalls, output, leaves>>

cacheVars == <<certs, now, getter, sweeper, live>>

lruVars == <<lru, lruAccess, lruLast>>

storeVars == <<fsKind, fsFileClosed, fsWritten, dbClosed, dbClientCloses, dbRows, sop,
               sopCount, closeDone, stErrors, stSuccess>>

captureVars == <<capIn, capOut>>

caVars == <<caCert, caKey, caProc, nextCA>>

healthVars == <<hReady, hChecks, hHealth, hReq>>

queryVars == <<qTable, qLog, qStats>>

serveVars == <<srvOpts, srvPhase, srvCaptured, harEntries, srvPending, srvOut>>

samplingVars == <<smpCfg, smpCounter, smpCall, smpLog>>

filterVars == <<fltIn, fltOut>>

utfVars == <<utfIn, utfOut>>

daemonVars == <<daemon, dmnCall>>

openVars == <<openDb, opener>>

vars == <<asyncVars, proxyVars, cacheVars, lruVars, storeVars, captureVars, caVars, healthVars, queryVars, serveVars, samplingVars, filterVars, utfVars, daemonVars, openVars>>

\* An action of one component leaves the others' state alone.
OnlyAsync == UNCHANGED <<proxyVars, cacheVars, lruVars, storeVars, captureVars, caVars, healthVars, queryVars, serveVars, samplingVars, filterVars, utfVars, daemonVars, openVars>>
OnlyProxy == UNCHANGED <<asyncVars, cacheVars, lruVars, storeVars, captureVars, caVars, healthVars, queryVars, serveVars, samplingVars, filterVars, utfVars, daemonVars, openVars>>
OnlyCache == UNCHANGED <<asyncVars, proxyVars, lruVars, storeVars, captureVars, caVars, healthVars, queryVars, serveVars, samplingVars, filterVars, utfVars, daemonVars, openVars>>
OnlyLRU == UNCHANGED <<asyncVars, proxyVars, cacheVars, storeVars, captureVars, caVars, healthVars, queryVars, serveVars, samplingVars, filterVars, utfVars, daemonVars, openVars>>
OnlyStore == UNCHANGED <<asyncVars, proxyVars, cacheVars, lruVars, captureVars, caVars, healthVars, queryVars, serveVars, samplingVars, filterVars, utfVars, daemonVars, openVars>>
OnlyCapture == UNCHANGED <<asyncVars, proxyVars, cacheVars, lruVars, storeVars, caVars, healthVars, queryVars, serveVars, samplingVars, filterVars, utfVars, daemonVars, openVars>>
OnlyCA == UNCHANGED <<asyncVars, proxyVars, cacheVars, lruVars, storeVars, captureVars, healthVars, queryVars, serveVars, samplingVars, filterVars, utfVars, daemonVars, openVars>>
OnlyHealth == UNCHANGED <<asyncVars, proxyVars, cacheVars, lruVars, storeVars, captureVars, caVars, queryVars, serveVars, samplingVars, filterVars, utfVars, daemonVars, openVars>>
OnlyQuery == UNCHANGED <<asyncVars, proxyVars, cacheVars, lruVars, storeVars, captureVars, caVars, healthVars, serveVars, samplingVars, filterVars, utfVars, daemonVars, openVars>>
OnlyServe == UNCHANGED <<asyncVars, proxyVars, cacheVars, lruVars, storeVars, captureVars, caVars, healthVars, queryVars, samplingVars, filterVars, utfVars, daemonVars, openVars>>
OnlySampling == UNCHANGED <<asyncVars, proxyVars, cacheVars, lruVars, storeVars, captureVars, caVars, healthVars, queryVars, serveVars, filterVars, utfVars, daemonVars, openVars>>
OnlyFilter == UNCHANGED <<asyncVars, proxyVars, cacheVars, lruVars, storeVars, captureVars, caVars, healthVars, queryVars, serveVars, samplingVars, utfVars, daemonVars, openVars>>
OnlyUTF8 == UNCHANGED <<asyncVars, proxyVars, cacheVars, lruVars, storeVars, captureVars, caVars, healthVars, queryVars, serveVars, samplingVars, filterVars, daemonVars, openVars>>
OnlyDaemon == UNCHANGED <<asyncVars, proxyVars, cacheVars, lruVars, storeVars, captureVars, caVars, healthVars, queryVars, serveVars, samplingVars, filterVars, utfVars, openVars>>
OnlyOpen == UNCHANGED <<asyncVars, proxyVars, cacheVars, lruVars, storeVars, captureVars, caVars, healthVars, queryVars, serveVars, samplingVars, filterVars, utfVars, daemonVars>>

Range(s) == {s[i] : i \in 1..Len(s)}

\* Records in the queue or in a worker's batch slice.
Pending == Range(queue) \cup UNION {Range(batch[w]) : w \in Workers}

(***************************************************************************)
(* NewAsyncTrafficStore: an empty queue, the workers started.              *)
(***************************************************************************)
NewAsyncTrafficStore ==
    /\ queue = <<>>
    /\ stopped = FALSE
    /\ stopChanClosed = FALSE
    /\ wpc = [w \in Workers |-> "select"]
    /\ batch = [w \in Workers |-> <<>>]
    /\ caller = [c \in Callers |-> [pc |-> "idle", rec |-> 0, afterClose |-> FALSE,
                                    outcome |-> "none", err |-> "none"]]
    /\ nextRec = 1
    /\ cpc = "idle"
    /\ fpc = "idle"
    /\ panicked = FALSE
    /\ innerCloseCalls = 0
    /\ handed = [r \in Recs |-> 0]
    /\ completed = {}
    /\ lateBatch = FALSE
    /\ accepted = {}
    /\ storeErrors = 0
    /\ storeSuccess = 0
    /\ flushSnap = {}
    /\ closeSnap = [called |-> FALSE, clean |-> FALSE, pending |-> FALSE]

(***************************************************************************)
(* The proxy engine and the Capturer: data.  A string is the sequence of   *)
(* its characters.                                                         *)
(***************************************************************************)
HostPinned == <<"a", "p", "p", ".", "p", "i", "n", "n", "e", "d", ".", "t", "e", "s", "t">>
HostApi == <<"a", "p", "i", ".", "t", "e", "s", "t">>
Port443 == <<"4", "4", "3">>
PatPinned == <<"*", ".", "p", "i", "n", "n", "e", "d", ".", "t", "e", "s", "t">>
PathUsers == <<"/", "a", "p", "i", "/", "u", "s", "e", "r", "s">>
PathAppJs == <<"/", "a", "p", "i", "/", "a", "p", "p", ".", "j", "s">>
PathHealth == <<"/", "h", "e", "a", "l", "t", "h">>
PatApi == <<"/", "a", "p", "i", "/", "*">>
PatJs == <<"*", ".", "j", "s">>
MethodGet == <<"G", "E", "T">>

\* The client transactions of a run: one client sends a request in absolute
\* form (plain HTTP), one sends CONNECT and then a request inside the session.
PlainClients == {"t1"}
ConnectClients == {"t2"}
Txns == PlainClients \cup ConnectClients
\* What the requests and responses may carry.
Hosts == {HostPinned, HostApi}
Ports == {Port443}
Paths == {PathUsers, PathAppJs, PathHealth}
Methods == {MethodGet}
Statuses == {200, 404}
\* The handlers runServe registers on the Capturer: the HAR writer's and the
\* traffic store's.
Handlers == {"har", "store"}

\* NewFilter: MinStatusCode 0, MaxStatusCode 999.
MinStatusCode == 0
MaxStatusCode == 999

\* capture.Config.Filter == nil.
NoFilter ==
    [set |-> FALSE,
     includeHosts |-> <<>>, excludeHosts |-> <<>>,
     includePaths |-> <<>>, excludePaths |-> <<>>,
     includeMethods |-> <<>>, excludeMethods |-> <<>>,
     includeStatus |-> <<>>, excludeStatus |-> <<>>,
     min |-> MinStatusCode, max |-> MaxStatusCode]
\* --include-path "/api/*" --exclude-path "*.js"
PathFilter == [NoFilter EXCEPT !.set = TRUE, !.includePaths = <<PatApi>>,
                               !.excludePaths = <<PatJs>>]

\* The configurations of a run: proxy.Config.EnableMITM and SkipHosts, and
\* capture.Config.Filter.
Configs ==
    {[enableMITM |-> FALSE, skipHosts |-> <<>>, filter |-> NoFilter],
     [enableMITM |-> TRUE, skipHosts |-> <<>>, filter |-> NoFilter],
     [enableMITM |-> TRUE, skipHosts |-> <<PatPinned>>, filter |-> PathFilter]}

NoResp == [present |-> FALSE, status |-> 0, readErr |-> FALSE]
NoRecord == [present |-> FALSE, host |-> <<>>, path |-> <<>>, method |-> <<>>,
             scheme |-> "", status |-> 0, hasBody |-> FALSE]
NewTxn == [pc |-> "new", host |-> <<>>, port |-> <<>>, decision |-> "none",
           ud |-> NoRecord, resp |-> NoResp, client |-> NoResp,
           captureErr |-> "none", storeOutcome |-> "none"]

\* The proxy's variables while no proxy runs.
NoProxy ==
    /\ cfg = [enableMITM |-> FALSE, skipHosts |-> <<>>, filter |-> NoFilter]
    /\ txn = [t \in Txns |-> NewTxn]
    /\ records = <<>>
    /\ handlerCalls = [h \in Handlers |-> [t \in Txns |-> 0]]
    /\ output = <<>>
    /\ leaves = {}
(***************************************************************************)
(* MemoryCertCache: data.                                                  *)
(***************************************************************************)
\* cfg.TTL, in ticks of the clock.
TTL == 1
\* The clock stops here.
MaxTime == 3

Getters == {"g1", "g2"}
\* The hosts whose leaves are cached.
CacheHosts == {HostApi}
Certs == {"leaf1", "leaf2"}

NoEntry == [present |-> FALSE, cert |-> "", expiresAt |-> 0]
IdleGetter == [pc |-> "idle", host |-> <<>>, entry |-> NoEntry, expect |-> NoEntry,
               disturbed |-> FALSE, result |-> "none", mustHit |-> FALSE, right |-> FALSE]

\* NewMemoryCertCache: an empty map, the cleanup goroutine started.
NewMemoryCertCache ==
    /\ certs = [h \in CacheHosts |-> NoEntry]
    /\ now = 0
    /\ getter = [g \in Getters |-> IdleGetter]
    /\ sweeper = [pc |-> "idle", expired |-> {}]
    /\ live = [h \in CacheHosts |-> NoEntry]

(***************************************************************************)
(* LRUCertCache: data.                                                     *)
(***************************************************************************)
\* cfg.Capacity
Capacity == 2

LruHosts == {"h1", "h2", "h3", "h4"}
\* The nil *lruEntry.
NilEntry == "nil"
\* An entry of the list is named by its host; one that is not in c.items is
\* garbage and is kept blank.
NoLruEntry == [present |-> FALSE, cert |-> "", prev |-> NilEntry, next |-> NilEntry]
NoLruOp == [op |-> "none", host |-> NilEntry, hit |-> FALSE, sizeBefore |-> 0,
            oldest |-> NilEntry, removed |-> {}]

\* NewLRUCertCache: an empty map, head and tail nil.
NewLRUCertCache ==
    /\ lru = [items |-> [h \in LruHosts |-> NoLruEntry], head |-> NilEntry, tail |-> NilEntry]
    /\ lruAccess = <<>>
    /\ lruLast = NoLruOp

(***************************************************************************)
(* FileTrafficStore and DatabaseTrafficStore: data.                        *)
(***************************************************************************)
\* Calls made on the stores in a run.
MaxStoreOps == 3

StoreUsers == {"u1", "u2"}
StoreNames == {"file", "db"}
\* FileTrafficStoreConfig: Path set (s.file is the opened file), or a Writer
\* or stdout (s.file is nil).
FileKinds == {"path", "writer"}
WriteOps == {"Store", "StoreBatch"}
ReadOps == {"Query", "GetByID", "Count", "Stats"}
OpsOf(store) == IF store = "db" THEN WriteOps \cup ReadOps \cup {"Close"}
                ELSE WriteOps \cup {"Close"}

IdleOp == [pc |-> "idle", store |-> "file", op |-> "none", recs |-> <<>>, afterClose |-> FALSE,
           err |-> "none", persisted |-> 0]

\* NewFileTrafficStore with the given kind of writer, NewDatabaseTrafficStore.
NewStores(kind) ==
    /\ fsKind = kind
    /\ fsFileClosed = FALSE
    /\ fsWritten = <<>>
    /\ dbClosed = FALSE
    /\ dbClientCloses = 0
    /\ dbRows = <<>>
    /\ sop = [u \in StoreUsers |-> IdleOp]
    /\ sopCount = 0
    /\ closeDone = [s \in StoreNames |-> FALSE]
    /\ stErrors = [s \in StoreNames |-> 0]
    /\ stSuccess = [s \in StoreNames |-> 0]

(***************************************************************************)
(* Capturer, one message: data.                                            *)
(***************************************************************************)
\* cfg.MaxBodySize, in bytes.
MaxBodySize == 2

\* DefaultConfig().FilterHeaders
DefaultFilterHeaders ==
    << <<"a", "u", "t", "h", "o", "r", "i", "z", "a", "t", "i", "o", "n">>,
       <<"c", "o", "o", "k", "i", "e">>,
       <<"s", "e", "t", "-", "c", "o", "o", "k", "i", "e">>,
       <<"x", "-", "a", "p", "i", "-", "k", "e", "y">>,
       <<"x", "-", "a", "u", "t", "h", "-", "t", "o", "k", "e", "n">>,
       <<"p", "r", "o", "x", "y", "-", "a", "u", "t", "h", "o", "r", "i", "z", "a", "t", "i", "o", "n">> >>

\* Header names as they arrive: canonical, upper case, lower case.
HdrAuthorization == <<"A", "u", "t", "h", "o", "r", "i", "z", "a", "t", "i", "o", "n">>
HdrCookieUpper == <<"C", "O", "O", "K", "I", "E">>
HdrApiKeyLower == <<"x", "-", "a", "p", "i", "-", "k", "e", "y">>
HdrAccept == <<"A", "c", "c", "e", "p", "t">>
SensitiveNames == {HdrAuthorization, HdrCookieUpper, HdrApiKeyLower}
HeaderNames == SensitiveNames \cup {HdrAccept}

\* The http.Header values of a message: per name, its list of values (empty
\* if the header is absent).
HeaderMaps ==
    {hm \in [HeaderNames -> {<<>>, <<"plain1">>, <<"plain1", "plain2">>,
                                  <<"secret1", "secret2">>}] :
        /\ \A n \in SensitiveNames : hm[n] \in {<<>>, <<"secret1", "secret2">>}
        /\ hm[HdrAccept] # <<"secret1", "secret2">>}

\* The body of a message: whether Body is nil, its length in bytes, whether
\* ContentLength is known (else -1), whether reading it fails, and what
\* contentdetect.IsBinary says of the bytes read.
Bodies ==
    [bodyNil : BOOLEAN, length : 0..(MaxBodySize + 1), lengthKnown : BOOLEAN,
     readErr : BOOLEAN, binary : BOOLEAN]

CaptureConfigs == [includeHeaders : BOOLEAN, includeBody : BOOLEAN, skipBinary : BOOLEAN]

NoCaptureIn == [kind |-> "none"]
NoCaptureOut == [headers |-> {}, bodySize |-> 0, isBinary |-> FALSE, body |-> "",
                 forwarded |-> 0]

\* No message captured yet.
NoCapture ==
    /\ capIn = NoCaptureIn
    /\ capOut = NoCaptureOut

(***************************************************************************)
(* ca.LoadOrCreate: data.                                                  *)
(***************************************************************************)
\* The CAs New can generate in a run: each call generates a fresh key pair.
MaxCAs == 3
\* The processes (or goroutines) calling LoadOrCreate on the same two paths.
CAProcs == {"p1", "p2"}
\* A file that does not exist.
Absent == 0
\* No CA returned.
NoCA == [cert |-> Absent, key |-> Absent]
IdleCAProc == [pc |-> "idle", ca |-> Absent, cert |-> Absent, result |-> NoCA]

\* Before any LoadOrCreate: neither file exists.
NoCAFiles ==
    /\ caCert = Absent
    /\ caKey = Absent
    /\ caProc = [p \in CAProcs |-> IdleCAProc]
    /\ nextCA = 1

(***************************************************************************)
(* observability.HealthChecker: data.                                      *)
(***************************************************************************)
\* The names under which checks are registered.
CheckNames == {"db", "ready"}
\* What a check function returns: nil, or an error with this text.
CheckErrors == {"down", "timeout"}
CheckResults == {"nil"} \cup CheckErrors
\* The keys of HealthStatus.Checks: a check's name, or the handler's own
\* "ready" key.
StatusKeys == CheckNames \cup {"ready"}
\* HealthStatus.Checks, empty.
NoChecks == [k \in StatusKeys |-> "absent"]
IdleReq == [pc |-> "idle", ready |-> FALSE, checks |-> {}, todo |-> {},
            results |-> [n \in CheckNames |-> "none"],
            code |-> 0, body |-> NoChecks]

\* NewHealthChecker: not ready, no checks.
NewHealthChecker ==
    /\ hReady = FALSE
    /\ hChecks = {}
    /\ hHealth = [n \in CheckNames |-> "nil"]
    /\ hReq = IdleReq

(***************************************************************************)
(* DatabaseTrafficStore.Query, Count and Stats: data.                      *)
(***************************************************************************)
\* Rows in the traffic table.
MaxRows == 3
\* started_at, in ticks; 0 is the zero time.Time of an unset filter bound.
StartTimes == {1, 2}
QueryMethods == {"GET", "POST"}
QueryStatuses == {200, 500}
Rows == [startedAt : StartTimes, method : QueryMethods, status : QueryStatuses]
\* TrafficFilter: the fields that select rows.
RowFilters == [startTime : {0, 2}, methods : {<<>>, <<"POST">>}, minStatus : {0, 500}]
\* TrafficFilter.OrderBy and Desc.
Orderings == {[orderBy |-> "", desc |-> FALSE], [orderBy |-> "id", desc |-> FALSE]}
\* TrafficFilter.Limit of a paging client.
PageSizes == {1, 2}
NoStats == [called |-> FALSE]

\* An empty table, and no query made yet.
NoQueries ==
    /\ qTable = <<>>
    /\ qLog = <<>>
    /\ qStats = NoStats

(***************************************************************************)
(* runServe with --format har: data.                                       *)
(***************************************************************************)
\* Records captured in a run.
MaxCaptured == 3
\* opts.output set (a file) or empty (stdout); opts.db set or empty;
\* opts.format, where json and ir are written as ndjson is, record by record.
ServeOpts == [output : {"file", "stdout"}, db : BOOLEAN, format : {"har", "ndjson"}]

\* runServe not started.
NoServe ==
    /\ srvOpts = [output |-> "file", db |-> FALSE, format |-> "har"]
    /\ srvPhase = "off"
    /\ srvCaptured = 0
    /\ harEntries = <<>>
    /\ srvPending = <<>>
    /\ srvOut = <<>>

(***************************************************************************)
(* SamplingTrafficStore: data.                                             *)
(***************************************************************************)
\* Records counted by shouldSample in a run.
MaxCounted == 4
SamplingCallers == {"s1", "s2"}
\* SampleRate as a fraction num/den: 0.0, 1.0, 0.5 and 1/3.
SampleRates == {[num |-> 0, den |-> 1], [num |-> 1, den |-> 1],
                [num |-> 1, den |-> 2], [num |-> 1, den |-> 3]}
\* SamplingConfig.
SamplingConfigs ==
    [sampleRate : SampleRates,
     alwaysCapture : {<<>>, <<HostApi>>, <<PatPinned>>},
     neverCapture : {<<>>, <<PatPinned>>}]
IdleSamplingCall == [pc |-> "idle", host |-> <<>>, counter |-> 0, forwarded |-> FALSE]

\* Before NewSamplingTrafficStore.
NoSampling ==
    /\ smpCfg = [set |-> FALSE]
    /\ smpCounter = 0
    /\ smpCall = [c \in SamplingCallers |-> IdleSamplingCall]
    /\ smpLog = <<>>

(***************************************************************************)
(* capture.Filter, one call: data.                                         *)
(***************************************************************************)
MethodGetLower == <<"g", "e", "t">>
MethodGetMixed == <<"G", "e", "t">>
MethodPost == <<"P", "O", "S", "T">>
\* The Filters MatchRequest is asked: the six lists.
RequestFilters ==
    [includeHosts : {<<>>, <<HostApi>>, <<PatPinned>>},
     excludeHosts : {<<>>, <<PatPinned>>},
     includePaths : {<<>>, <<PatApi>>},
     excludePaths : {<<>>, <<PatJs>>},
     includeMethods : {<<>>, <<MethodGetLower>>, <<MethodPost, MethodGet>>},
     excludeMethods : {<<>>, <<MethodGetMixed>>}]
RequestMethods == {MethodGet, MethodGetLower, MethodPost}
\* Wildcard patterns and inputs, character by character.
MaxPatternLen == 2
MaxInputLen == 2
PatternChars == {"a", ".", "*", "?"}
InputChars == {"a", "b", ".", "\n"}
SeqsUpTo(S, n) == UNION {[1..k -> S] : k \in 0..n}
NoFilterCall == [kind |-> "none"]

\* No call made yet.
NoFilterCalls ==
    /\ fltIn = NoFilterCall
    /\ fltOut = FALSE

(***************************************************************************)
(* contentdetect.isValidUTF8: data.                                        *)
(***************************************************************************)
\* Length of the data.
MaxBytes == 4
\* The bytes the data is made of: "A"; the continuation bytes 0x80, 0x90 and
\* 0xA0; the leads 0xC1, 0xC2, 0xE0, 0xF0 and 0xF5; 0xFF.
DataBytes == {65, 128, 144, 160, 193, 194, 224, 240, 245, 255}
NoData == [set |-> FALSE, data |-> <<>>]

\* No call made yet.
NoUTF8Call ==
    /\ utfIn = NoData
    /\ utfOut = FALSE

\* ---- Daemon: data ----
DaemonCallers == {"g1", "g2"}

\* What Status and the file system show of a daemon.
Snapshot(d) == [running |-> d.running, pid |-> d.pid, sock |-> d.sock]

NoSnapshot == [running |-> FALSE, pid |-> FALSE, sock |-> FALSE]

StartErrors == {"listen", "chmod", "pidfile", "onStart"}

IdleDaemonCall == [op |-> "none", pc |-> "idle", result |-> "none",
                   before |-> NoSnapshot, after |-> NoSnapshot]

\* New(cfg): not running, the stop channel made and open, no file written.
NewDaemon ==
    /\ daemon = [running |-> FALSE, pid |-> FALSE, sock |-> FALSE,
                 listener |-> "none", stopCh |-> "open", stops |-> 0,
                 panicked |-> FALSE]
    /\ dmnCall = [c \in DaemonCallers |-> IdleDaemonCall]

\* ---- NewDatabaseTrafficStore: data ----
Openers == {"o1", "o2", "o3"}

IdleOpener == [pc |-> "idle", org |-> 0, proxyID |-> 0, err |-> "none"]

\* A migrated database without rows; ids are given in order of insertion.
NoOpens ==
    /\ openDb = [orgs |-> 0, proxies |-> 0]
    /\ opener = [o \in Openers |-> IdleOpener]

\* The components a specification does not exercise stay as constructed.
Rest ==
    /\ NoCAFiles
    /\ NewHealthChecker
    /\ NoQueries    /\ NoServe    /\ NoSampling    /\ NoFilterCalls    /\ NoUTF8Call    /\ NewDaemon    /\ NoOpens
Idle ==
    /\ NewAsyncTrafficStore /\ NoProxy /\ NewMemoryCertCache /\ NewLRUCertCache
    /\ Rest
Constructed ==
    /\ Idle
    /\ NewStores("path")
    /\ NoCapture

InitAsync == Constructed

(***************************************************************************)
(* AsyncTrafficStoreWrapper.Store                                          *)
(***************************************************************************)
\* The call and its first statement: read w.stopped under the read lock; a
\* stopped wrapper returns nil at once.
StoreCheckStopped(c) ==
    /\ ~panicked
    /\ OnlyAsync
    /\ caller[c].pc = "idle"
    /\ nextRec <= MaxRecords
    /\ nextRec' = nextRec + 1
    /\ caller' = [caller EXCEPT ![c] =
                    IF stopped
                    THEN [pc |-> "idle", rec |-> nextRec, afterClose |-> closeSnap.called,
                          outcome |-> "skipped", err |-> "nil"]
                    ELSE [pc |-> "select", rec |-> nextRec, afterClose |-> closeSnap.called,
                          outcome |-> "none", err |-> "none"]]
    /\ UNCHANGED <<queue, stopped, stopChanClosed, wpc, batch, cpc, fpc,
                   panicked, innerCloseCalls, handed, lateBatch, storeErrors,
                   storeSuccess, flushSnap, closeSnap, accepted, completed>>

\* A faulty variant of StoreSelect: a full queue drops the record without counting it.
StoreSelect_Uncounted(c) ==
    /\ ~panicked
    /\ OnlyAsync
    /\ caller[c].pc = "select"
    /\ IF Len(queue) < QueueSize
       THEN /\ queue' = Append(queue, caller[c].rec)
            /\ accepted' = accepted \cup {caller[c].rec}
            /\ caller' = [caller EXCEPT ![c].pc = "idle", ![c].outcome = "queued",
                                        ![c].err = "nil"]
       ELSE /\ caller' = [caller EXCEPT ![c].pc = "idle", ![c].outcome = "dropped",
                                        ![c].err = "nil"]
            /\ UNCHANGED <<queue, accepted>>
    /\ UNCHANGED <<storeErrors, stopped, stopChanClosed, wpc, batch, nextRec, cpc,
                   fpc, panicked, innerCloseCalls, handed, lateBatch, storeSuccess, flushSnap, closeSnap, completed>>

\* select { case w.queue <- rec: ...; default: w.metrics.IncStoreError() }
StoreSelect(c) ==
    /\ ~panicked
    /\ OnlyAsync
    /\ caller[c].pc = "select"
    /\ IF Len(queue) < QueueSize
       THEN /\ queue' = Append(queue, caller[c].rec)
            /\ accepted' = accepted \cup {caller[c].rec}
            /\ caller' = [caller EXCEPT ![c].pc = "idle", ![c].outcome = "queued",
                                        ![c].err = "nil"]
            /\ UNCHANGED storeErrors
       ELSE /\ storeErrors' = storeErrors + 1
            /\ caller' = [caller EXCEPT ![c].pc = "idle", ![c].outcome = "dropped",
                                        ![c].err = "nil"]
            /\ UNCHANGED <<queue, accepted>>
    /\ UNCHANGED <<stopped, stopChanClosed, wpc, batch, nextRec, cpc, fpc,
                   panicked, innerCloseCalls, handed, lateBatch,
                   storeSuccess, flushSnap, closeSnap, completed>>

(***************************************************************************)
(* AsyncTrafficStoreWrapper.worker                                         *)
(***************************************************************************)
\* flush(), up to the call of w.store.StoreBatch(ctx, batch) with batch b.
FlushBegin(w, b, pcNext) ==
    /\ handed' = [r \in Recs |-> handed[r] + Cardinality({i \in 1..Len(b) : b[i] = r})]
    /\ lateBatch' = (lateBatch \/ innerCloseCalls > 0)
    /\ wpc' = [wpc EXCEPT ![w] = pcNext]

\* case rec := <-w.queue, in the main loop.
WorkerRecv(w) ==
    /\ ~panicked
    /\ OnlyAsync
    /\ wpc[w] = "select"
    /\ queue # <<>>
    /\ queue' = Tail(queue)
    /\ LET b == Append(batch[w], Head(queue)) IN
         /\ batch' = [batch EXCEPT ![w] = b]
         /\ IF Len(b) >= BatchSize
            THEN FlushBegin(w, b, "flush")
            ELSE UNCHANGED <<handed, lateBatch, wpc>>
    /\ UNCHANGED <<stopped, stopChanClosed, caller, nextRec, cpc, fpc,
                   panicked, innerCloseCalls, storeErrors, storeSuccess,
                   flushSnap, closeSnap, accepted, completed>>

\* case <-ticker.C: flush() of a partial batch (an empty batch returns at once).
WorkerTick(w) ==
    /\ ~panicked
    /\ OnlyAsync
    /\ wpc[w] = "select"
    /\ batch[w] # <<>>
    /\ FlushBegin(w, batch[w], "flush")
    /\ UNCHANGED <<queue, batch, stopped, stopChanClosed, caller, nextRec, cpc,
                   fpc, panicked, innerCloseCalls, storeErrors,
                   storeSuccess, flushSnap, closeSnap, accepted, completed>>

\* case <-w.stopChan: enter the drain loop.
WorkerStop(w) ==
    /\ ~panicked
    /\ OnlyAsync
    /\ wpc[w] = "select"
    /\ stopChanClosed
    /\ wpc' = [wpc EXCEPT ![w] = "drain"]
    /\ UNCHANGED <<queue, batch, stopped, stopChanClosed, caller, nextRec, cpc,
                   fpc, panicked, innerCloseCalls, handed, lateBatch, storeErrors, storeSuccess, flushSnap, closeSnap, accepted, completed>>

\* The drain loop's case rec := <-w.queue.
WorkerDrainRecv(w) ==
    /\ ~panicked
    /\ OnlyAsync
    /\ wpc[w] = "drain"
    /\ queue # <<>>
    /\ queue' = Tail(queue)
    /\ LET b == Append(batch[w], Head(queue)) IN
         /\ batch' = [batch EXCEPT ![w] = b]
         /\ IF Len(b) >= BatchSize
            THEN FlushBegin(w, b, "drainFlush")
            ELSE UNCHANGED <<handed, lateBatch, wpc>>
    /\ UNCHANGED <<stopped, stopChanClosed, caller, nextRec, cpc, fpc,
                   panicked, innerCloseCalls, storeErrors, storeSuccess,
                   flushSnap, closeSnap, accepted, completed>>

\* The drain loop's default: flush() and return (defer w.wg.Done()).
WorkerDrainDefault(w) ==
    /\ ~panicked
    /\ OnlyAsync
    /\ wpc[w] = "drain"
    /\ queue = <<>>
    /\ IF batch[w] = <<>>
       THEN /\ wpc' = [wpc EXCEPT ![w] = "done"]
            /\ UNCHANGED <<handed, lateBatch>>
       ELSE FlushBegin(w, batch[w], "finalFlush")
    /\ UNCHANGED <<queue, batch, stopped, stopChanClosed, caller, nextRec, cpc,
                   fpc, panicked, innerCloseCalls, storeErrors,
                   storeSuccess, flushSnap, closeSnap, accepted, completed>>

\* w.store.StoreBatch returns, with an error or without; the rest of flush().
StoreBatchReturn(w) ==
    /\ ~panicked
    /\ OnlyAsync
    /\ wpc[w] \in {"flush", "drainFlush", "finalFlush"}
    /\ \E failed \in BOOLEAN :
         IF failed
         THEN /\ storeErrors' = storeErrors + 1
              /\ UNCHANGED storeSuccess
         ELSE /\ storeSuccess' = storeSuccess + Len(batch[w])
              /\ UNCHANGED storeErrors
    /\ completed' = completed \cup Range(batch[w])
    /\ batch' = [batch EXCEPT ![w] = <<>>]
    /\ wpc' = [wpc EXCEPT ![w] = CASE wpc[w] = "flush" -> "select"
                                   [] wpc[w] = "drainFlush" -> "drain"
                                   [] OTHER -> "done"]
    /\ UNCHANGED <<queue, stopped, stopChanClosed, caller, nextRec, cpc, fpc, panicked, innerCloseCalls, handed, lateBatch, flushSnap, closeSnap, accepted>>

(***************************************************************************)
(* AsyncTrafficStoreWrapper.Close                                          *)
(***************************************************************************)
\* The call and its critical section: w.stopped = true.
CloseSetStopped ==
    /\ ~panicked
    /\ OnlyAsync
    /\ cpc \in {"idle", "done"}
    /\ stopped' = TRUE
    /\ cpc' = "closeChan"
    /\ closeSnap' = IF closeSnap.called THEN closeSnap
                    ELSE [called |-> TRUE,
                          clean |-> \A c \in Callers : caller[c].pc = "idle",
                          pending |-> Pending # {}]
    /\ UNCHANGED <<queue, stopChanClosed, wpc, batch, caller, nextRec, fpc, panicked,
                   innerCloseCalls, handed, lateBatch, storeErrors,
                   storeSuccess, flushSnap, accepted, completed>>

\* close(w.stopChan): closing a closed channel panics.
CloseStopChan ==
    /\ ~panicked
    /\ OnlyAsync
    /\ cpc = "closeChan"
    /\ IF stopChanClosed
       THEN /\ panicked' = TRUE
            /\ cpc' = "panic"
            /\ UNCHANGED stopChanClosed
       ELSE /\ stopChanClosed' = TRUE
            /\ cpc' = "wait"
            /\ UNCHANGED panicked
    /\ UNCHANGED <<queue, stopped, wpc, batch, caller, nextRec, fpc,
                   innerCloseCalls, handed, lateBatch, storeErrors,
                   storeSuccess, flushSnap, closeSnap, accepted, completed>>

\* A faulty variant of WgDone: Close does not wait for the workers.
WgDone_NoWait == TRUE

\* w.wg.Wait() returns: every worker has run its deferred w.wg.Done().
WgDone == \A w \in Workers : wpc[w] = "done"

\* w.wg.Wait(), then return w.store.Close().
CloseWaitInner ==
    /\ ~panicked
    /\ OnlyAsync
    /\ cpc = "wait"
    /\ WgDone
    /\ innerCloseCalls' = innerCloseCalls + 1
    /\ cpc' = "done"
    /\ UNCHANGED <<queue, stopped, stopChanClosed, wpc, batch, caller, nextRec,
                   fpc, panicked, handed, lateBatch,
                   storeErrors, storeSuccess, flushSnap, closeSnap, accepted, completed>>

(***************************************************************************)
(* AsyncTrafficStoreWrapper.Flush                                          *)
(***************************************************************************)
FlushCall ==
    /\ ~panicked
    /\ OnlyAsync
    /\ fpc = "idle"
    /\ fpc' = "poll"
    /\ flushSnap' = accepted
    /\ UNCHANGED <<queue, stopped, stopChanClosed, wpc, batch, caller, nextRec, cpc,
                   panicked, innerCloseCalls, handed, lateBatch,
                   storeErrors, storeSuccess, closeSnap, accepted, completed>>

\* case <-ticker.C: if len(w.queue) == 0 { return nil }
FlushTick ==
    /\ ~panicked
    /\ OnlyAsync
    /\ fpc = "poll"
    /\ Len(queue) = 0
    /\ fpc' = "nil"
    /\ UNCHANGED <<queue, stopped, stopChanClosed, wpc, batch, caller, nextRec, cpc,
                   panicked, innerCloseCalls, handed, lateBatch,
                   storeErrors, storeSuccess, flushSnap, closeSnap, accepted, completed>>

\* case <-ctx.Done(): return ctx.Err()
FlushCtxDone ==
    /\ ~panicked
    /\ OnlyAsync
    /\ fpc = "poll"
    /\ fpc' = "ctxErr"
    /\ flushSnap' = flushSnap \cap Range(queue)
    /\ UNCHANGED <<queue, stopped, stopChanClosed, wpc, batch, caller, nextRec, cpc,
                   panicked, innerCloseCalls, handed, lateBatch,
                   storeErrors, storeSuccess, closeSnap, accepted, completed>>

(***************************************************************************)
(* The wrapper with its callers.  A panic ends the process: no action is   *)
(* enabled once panicked holds.                                            *)
(***************************************************************************)
NextAsync ==
    \/ \E c \in Callers : StoreCheckStopped(c)
    \/ \E c \in Callers : StoreSelect(c)
    \/ \E w \in Workers : WorkerRecv(w)
    \/ \E w \in Workers : WorkerTick(w)
    \/ \E w \in Workers : WorkerStop(w)
    \/ \E w \in Workers : WorkerDrainRecv(w)
    \/ \E w \in Workers : WorkerDrainDefault(w)
    \/ \E w \in Workers : StoreBatchReturn(w)
    \/ CloseSetStopped
    \/ CloseStopChan
    \/ CloseWaitInner
    \/ FlushCall
    \/ FlushTick
    \/ FlushCtxDone

SpecAsync == InitAsync /\ [][NextAsync]_vars

C2_StoreAfterCloseReturnsClosed ==
    \A c \in Callers :
        (caller[c].afterClose /\ caller[c].pc = "idle")
        => (caller[c].err = "closed" /\ caller[c].rec \notin accepted)

\* C3: Close is idempotent: a second call does not panic and the inner store
\* is closed once.
C3_CloseIdempotent == cpc # "panic" /\ ~panicked /\ innerCloseCalls <= 1

\* C4: when Flush returns nil, every record accepted before Flush was called
\* has been passed to the inner store in a StoreBatch call that has returned.
C4_FlushNilMeansStored == (fpc = "nil") => (flushSnap \subseteq completed)

\* C5: no record is passed to StoreBatch twice, no StoreBatch is issued after
\* the inner store's Close, and once Close (called while no Store call was in
\* progress) has closed the inner store, nothing is left in the queue or in a
\* batch: every accepted record was handed to StoreBatch exactly once and
\* that call has returned.
C5_CloseDrainsBeforeInnerClose ==
    /\ ~lateBatch
    /\ \A r \in Recs : handed[r] <= 1
    /\ (innerCloseCalls > 0 /\ closeSnap.clean)
       => /\ Pending = {}
          /\ \A r \in accepted : handed[r] = 1
          /\ accepted \subseteq completed
          /\ \A w \in Workers : wpc[w] = "done"

\* C5 witness: Close found records in the queue or in a partial batch, no
\* Store call in progress, and has closed the inner store.
C5_Witness ==
    /\ innerCloseCalls > 0
    /\ closeSnap.clean
    /\ closeSnap.pending
    /\ accepted # {}

\* C32: also when Store calls run concurrently with Close, once Close has
\* returned the queue is empty and every record a Store call placed in the
\* queue has been passed to the inner store's StoreBatch.
C32_ConcurrentStoreNotLost ==
    (innerCloseCalls > 0)
       => /\ queue = <<>>
          /\ \A r \in accepted : handed[r] >= 1

\* C33: once the wrapper is closed, with every Store call made and returned
\* before Close was called, the records counted as stored plus those counted
\* as store errors are the records passed to Store, each counted once.
C33_StoreAccountingConserved ==
    (/\ innerCloseCalls > 0
     /\ closeSnap.clean
     /\ \A c \in Callers : caller[c].pc = "idle" /\ ~caller[c].afterClose)
       => storeSuccess + storeErrors = nextRec - 1

\* A step in which worker w's StoreBatch call returns an error.
BatchFails(w) ==
    /\ wpc[w] \in {"flush", "drainFlush", "finalFlush"}
    /\ wpc'[w] # wpc[w]
    /\ storeSuccess' = storeSuccess

\* C14: when the write of a batch of n records fails, none of its records
\* is counted as stored and the store-error counter goes up by n.
C14_BatchFailureCountsEachRecord ==
    [][\A w \in Workers :
          BatchFails(w) => storeErrors' = storeErrors + Len(batch[w])]_vars

\* C15: when the write of a batch fails, the worker has tried it twice
\* before it drops the records and counts the error.
C15_BatchRetriedOnce ==
    [][\A w \in Workers :
          BatchFails(w) => \A r \in Range(batch[w]) : handed[r] = 2]_vars

\* C16: Flush returns when its context is done, and the records accepted
\* before the call that were in the queue at that moment are dropped: none is passed to the inner store,
\* by a worker or by the Close that follows at shutdown.
C16_FlushDeadlineDropsQueue ==
    /\ (fpc = "poll") => ENABLED FlushCtxDone
    /\ (fpc = "ctxErr") => \A r \in flushSnap : handed[r] = 0

(***************************************************************************)
(* Proxy.setupMITM: the CONNECT handler.                                   *)
(***************************************************************************)
HasSuffix(str, suffix) ==
    /\ Len(str) >= Len(suffix)
    /\ SubSeq(str, Len(str) - Len(suffix) + 1, Len(str)) = suffix

\* matchWildcard(pattern, host)
matchWildcard(pattern, host) ==
    IF Len(pattern) = 0 THEN FALSE
    ELSE IF pattern[1] = "*" THEN HasSuffix(host, Tail(pattern))
    ELSE pattern = host

\* The handler registered with HandleConnect: OkConnect (tunnel) for a host
\* on the skip list, MitmConnect otherwise.
HandleConnect(skipHosts, host) ==
    IF \E i \in 1..Len(skipHosts) :
         host = skipHosts[i] \/ matchWildcard(skipHosts[i], host)
    THEN "tunnel"
    ELSE "mitm"

\* The host argument the engine hands to the CONNECT handler: the request
\* target of `CONNECT host:port`, port included.
ConnectTarget(host, port) == host \o <<":">> \o port

\* New: the handler is registered only if EnableMITM (and a CA) is set; an
\* engine without a CONNECT handler tunnels.
ConnectDecision(c, host, port) ==
    IF c.enableMITM THEN HandleConnect(c.skipHosts, ConnectTarget(host, port))
    ELSE "tunnel"

(***************************************************************************)
(* capture.Filter                                                          *)
(***************************************************************************)
\* The characters wildcardToRegexp writes with a backslash before them, and
\* the characters that are operators of the regexp syntax when written bare.
EscapedChars == {".", "+", "^", "$", "[", "]", "(", ")", "{", "}", "|", "\\"}
RegexpMeta == {".", "+", "*", "?", "^", "$", "[", "]", "(", ")", "{", "}", "|", "\\"}

\* wildcardToRegexp and regexp.Compile: "^" ... "$" around one regexp item
\* per character: ".*" for "*", "." for "?", a literal for an escaped
\* character and for a bare character that is no operator.
wildcardToRegexp(pattern) ==
    [i \in 1..Len(pattern) |->
        IF pattern[i] = "*" THEN [kind |-> "star", ch |-> ""]
        ELSE IF pattern[i] = "?" THEN [kind |-> "dot", ch |-> ""]
        ELSE IF pattern[i] \in EscapedChars THEN [kind |-> "lit", ch |-> pattern[i]]
        ELSE IF pattern[i] \in RegexpMeta THEN [kind |-> "operator", ch |-> pattern[i]]
        ELSE [kind |-> "lit", ch |-> pattern[i]]]

\* regexp.MatchString of an anchored pattern: "." matches any character but
\* a newline; a bare operator character does not stand for itself.
RECURSIVE MatchString(_, _)
MatchString(re, str) ==
    IF re = <<>> THEN str = <<>>
    ELSE LET item == Head(re) IN
         CASE item.kind = "lit" ->
                str # <<>> /\ Head(str) = item.ch /\ MatchString(Tail(re), Tail(str))
           [] item.kind = "dot" ->
                str # <<>> /\ Head(str) # "\n" /\ MatchString(Tail(re), Tail(str))
           [] item.kind = "operator" -> FALSE
           [] OTHER ->
                \/ MatchString(Tail(re), str)
                \/ str # <<>> /\ Head(str) # "\n" /\ MatchString(re, Tail(str))

\* compilePatterns
compilePatterns(patterns) == [i \in 1..Len(patterns) |-> wildcardToRegexp(patterns[i])]

LowerCase == <<"a", "b", "c", "d", "e", "f", "g", "h", "i", "j", "k", "l", "m",
               "n", "o", "p", "q", "r", "s", "t", "u", "v", "w", "x", "y", "z">>
UpperCase == <<"A", "B", "C", "D", "E", "F", "G", "H", "I", "J", "K", "L", "M",
               "N", "O", "P", "Q", "R", "S", "T", "U", "V", "W", "X", "Y", "Z">>
\* strings.ToUpper
ToUpper(str) ==
    [i \in 1..Len(str) |->
        IF \E k \in 1..Len(LowerCase) : LowerCase[k] = str[i]
        THEN UpperCase[CHOOSE k \in 1..Len(LowerCase) : LowerCase[k] = str[i]]
        ELSE str[i]]

\* A faulty variant of matchPatterns: a value an include pattern matched is
\* not looked up in the exclude list.
matchPatterns_IncludeWins(include, exclude, str) ==
    IF Len(include) > 0
    THEN \E i \in 1..Len(include) : MatchString(include[i], str)
    ELSE \A i \in 1..Len(exclude) : ~MatchString(exclude[i], str)

\* The include/exclude test shared by matchHost and matchPath.
matchPatterns(include, exclude, str) ==
    /\ Len(include) > 0 => \E i \in 1..Len(include) : MatchString(include[i], str)
    /\ \A i \in 1..Len(exclude) : ~MatchString(exclude[i], str)

matchHost(f, host) ==
    matchPatterns(compilePatterns(f.includeHosts), compilePatterns(f.excludeHosts), host)

matchPath(f, path) ==
    matchPatterns(compilePatterns(f.includePaths), compilePatterns(f.excludePaths), path)

matchMethod(f, method) ==
    /\ Len(f.includeMethods) > 0 =>
          \E i \in 1..Len(f.includeMethods) : ToUpper(f.includeMethods[i]) = ToUpper(method)
    /\ \A i \in 1..Len(f.excludeMethods) : ToUpper(f.excludeMethods[i]) # ToUpper(method)

MatchRequest(f, host, path, method) ==
    matchHost(f, host) /\ matchPath(f, path) /\ matchMethod(f, method)

MatchResponse(f, statusCode) ==
    /\ ~(statusCode < f.min \/ statusCode > f.max)
    /\ Len(f.includeStatus) > 0 => \E i \in 1..Len(f.includeStatus) : f.includeStatus[i] = statusCode
    /\ \A i \in 1..Len(f.excludeStatus) : f.excludeStatus[i] # statusCode

\* Filter.Match
Match(f, rec) ==
    MatchRequest(f, rec.host, rec.path, rec.method) /\ MatchResponse(f, rec.status)

(***************************************************************************)
(* capture.Capturer                                                        *)
(***************************************************************************)
\* StartCapture: the request part of a Record.
StartCapture(host, path, method, scheme) ==
    [present |-> TRUE, host |-> host, path |-> path, method |-> method,
     scheme |-> scheme, status |-> 0, hasBody |-> FALSE]

\* FinishCapture, up to finishRecord: the response part; the body is kept
\* only if it could be read.
FinishCapture(rec, resp) ==
    IF resp.present
    THEN [rec EXCEPT !.status = resp.status, !.hasBody = ~resp.readErr]
    ELSE rec

\* A faulty variant of AppendRecord: the record is appended twice.
AppendRecord_Twice(recs, rec) == Append(Append(recs, rec), rec)

\* finishRecord: c.records = append(c.records, *rec)
AppendRecord(recs, rec) == Append(recs, rec)

\* finishRecord: for _, h := range handlers { h(rec) }
InvokeHandlers(calls, t) == [h \in Handlers |-> [calls[h] EXCEPT ![t] = @ + 1]]

\* What AsyncTrafficStoreWrapper.Store does with a record on a wrapper that
\* is stopped or not and holds qlen records; it returns nil in each case.
StoreResult(isStopped, qlen) ==
    IF isStopped THEN "skipped"
    ELSE IF qlen < QueueSize THEN "queued"
    ELSE "dropped"

\* A faulty variant of ResponseToClient: a capture error fails the request.
ResponseToClient_FailOnError(resp, captureErr) ==
    IF captureErr = "ok" THEN resp ELSE NoResp

\* setupCapture's response hook drops FinishCapture's error and returns resp.
ResponseToClient(resp, captureErr) == resp

(***************************************************************************)
(* The proxy engine: one process per client transaction.                   *)
(***************************************************************************)
\* CONNECT host:port arrives: tunnel, or sign a leaf and terminate TLS.
ConnectRequest(t, host, port) ==
    /\ OnlyProxy
    /\ t \in ConnectClients
    /\ txn[t].pc = "new"
    /\ LET d == ConnectDecision(cfg, host, port) IN
         /\ txn' = [txn EXCEPT ![t].host = host, ![t].port = port, ![t].decision = d,
                               ![t].pc = IF d = "tunnel" THEN "tunnel" ELSE "mitm"]
         /\ leaves' = IF d = "mitm" THEN leaves \cup {host} ELSE leaves
    /\ UNCHANGED <<cfg, records, handlerCalls, output>>

\* A request arrives, in absolute form or inside a terminated TLS session:
\* the request hook stores StartCapture's record in ctx.UserData.
OnRequest(t, host, path, method) ==
    /\ OnlyProxy
    /\ \/ txn[t].pc = "new" /\ t \in PlainClients
       \/ txn[t].pc = "mitm" /\ host = txn[t].host
    /\ txn' = [txn EXCEPT ![t].pc = "upstream", ![t].host = host,
                          ![t].ud = StartCapture(host, path, method,
                                       IF txn[t].pc = "mitm" THEN "https" ELSE "http")]
    /\ UNCHANGED <<cfg, records, handlerCalls, output, leaves>>

\* The upstream answers.
UpstreamResponds(t, status, readErr) ==
    /\ OnlyProxy
    /\ txn[t].pc = "upstream"
    /\ txn' = [txn EXCEPT ![t].pc = "response",
                          ![t].resp = [present |-> TRUE, status |-> status,
                                       readErr |-> readErr]]
    /\ UNCHANGED <<cfg, records, handlerCalls, output, leaves>>

\* The round trip fails: the response hook runs with a nil response.
UpstreamFails(t) ==
    /\ OnlyProxy
    /\ txn[t].pc = "upstream"
    /\ txn' = [txn EXCEPT ![t].pc = "response", ![t].resp = NoResp]
    /\ UNCHANGED <<cfg, records, handlerCalls, output, leaves>>

\* The response hook: FinishCapture (finishRecord: append, handlers,
\* writeRecord), then the response goes back to the engine and the client.
\* written: does writeRecord write the record, or fail (json.Marshal or Write);
\* stored: what the store handler's Store call does with it.
OnResponse(t) ==
    /\ OnlyProxy
    /\ txn[t].pc = "response"
    /\ \E written \in {"ok", "write error"},
          stored \in {StoreResult(st, n) : st \in BOOLEAN, n \in 0..QueueSize} :
         LET rec == FinishCapture(txn[t].ud, txn[t].resp) IN
           /\ records' = AppendRecord(records, [id |-> t, rec |-> rec])
           /\ handlerCalls' = InvokeHandlers(handlerCalls, t)
           /\ output' = IF written = "ok" THEN Append(output, t) ELSE output
           /\ txn' = [txn EXCEPT ![t].pc = "done",
                                 ![t].ud = rec,
                                 ![t].captureErr = written,
                                 ![t].storeOutcome = stored,
                                 ![t].client = ResponseToClient(txn[t].resp, written)]
    /\ UNCHANGED <<cfg, leaves>>

\* proxy.New with a Capturer, MITM on or off, a skip list and a filter.
InitProxy ==
    /\ NewAsyncTrafficStore
    /\ cfg \in Configs
    /\ txn = [t \in Txns |-> NewTxn]
    /\ records = <<>>
    /\ handlerCalls = [h \in Handlers |-> [t \in Txns |-> 0]]
    /\ output = <<>>
    /\ leaves = {}
    /\ NewMemoryCertCache
    /\ NewLRUCertCache
    /\ NewStores("path")
    /\ NoCapture
    /\ Rest

NextProxy ==
    \/ \E t \in Txns, host \in Hosts, port \in Ports : ConnectRequest(t, host, port)
    \/ \E t \in Txns, host \in Hosts, path \in Paths, method \in Methods :
          OnRequest(t, host, path, method)
    \/ \E t \in Txns, status \in Statuses, readErr \in BOOLEAN :
          UpstreamResponds(t, status, readErr)
    \/ \E t \in Txns : UpstreamFails(t)
    \/ \E t \in Txns : OnResponse(t)

SpecProxy == InitProxy /\ [][NextProxy]_vars

(***************************************************************************)
(* Properties of the proxy engine and the Capturer.                        *)
(***************************************************************************)
\* The records of transaction t in Capturer.records.
RecordsOf(t) == {i \in 1..Len(records) : records[i].id = t}

\* C6: with a Filter configured, a finished transaction whose request or
\* response status does not match it leaves no Record, no handler call and
\* no output; with IncludePaths ["/api/*"] and ExcludePaths ["*.js"],
\* /api/users passes the filter and /api/app.js and /health do not.
C6_FilteredOutNotCaptured ==
    /\ matchPath(PathFilter, PathUsers)
    /\ ~matchPath(PathFilter, PathAppJs)
    /\ ~matchPath(PathFilter, PathHealth)
    /\ \A t \in Txns :
         (cfg.filter.set /\ txn[t].pc = "done" /\ ~Match(cfg.filter, txn[t].ud))
         => /\ RecordsOf(t) = {}
            /\ \A h \in Handlers : handlerCalls[h][t] = 0
            /\ \A i \in 1..Len(output) : output[i] # t

\* The handler's test of one SkipHosts entry, applied to the host name of
\* the CONNECT target: the same string, or "*" and a suffix the host ends with.
SkipEntryMatches(entry, host) == entry = host \/ matchWildcard(entry, host)

\* C7: a CONNECT to host:port whose host matches an entry of SkipHosts is
\* tunnelled: never terminated, no leaf signed for the host, no Record.
C7_SkipHostIsTunnelled ==
    \A t \in Txns :
        (txn[t].decision # "none"
           /\ \E i \in 1..Len(cfg.skipHosts) : SkipEntryMatches(cfg.skipHosts[i], txn[t].host))
        => /\ txn[t].decision = "tunnel"
           /\ txn[t].host \notin leaves
           /\ RecordsOf(t) = {}

C20_UpstreamFailureRecorded502 ==
    \A t \in Txns :
        (txn[t].pc = "done" /\ ~txn[t].resp.present)
        => /\ RecordsOf(t) # {}
           /\ \A i \in RecordsOf(t) : records[i].rec.status = 502

\* C21: on a CONNECT that is intercepted, the leaf certificate signed for the
\* host is stored in the certificate cache: every host a leaf was signed for
\* has a live cache entry (no entry is deleted and the clock stands still
\* while the proxy engine runs).
C21_MintedLeafIsCached ==
    \A h \in leaves \cap CacheHosts : certs[h].present /\ now <= certs[h].expiresAt

(***************************************************************************)
(* MemoryCertCache                                                         *)
(***************************************************************************)
\* A caller's Set, Delete or Clear on host h disturbs the Gets in progress
\* on h.
Disturb(hs) ==
    [g \in Getters |-> IF getter[g].pc # "idle" /\ getter[g].host \in hs
                       THEN [getter[g] EXCEPT !.disturbed = TRUE]
                       ELSE getter[g]]

\* Set(host, cert)
CacheSet(h, c) ==
    /\ OnlyCache
    /\ certs' = [certs EXCEPT ![h] = [present |-> TRUE, cert |-> c, expiresAt |-> now + TTL]]
    /\ live' = [live EXCEPT ![h] = [present |-> TRUE, cert |-> c, expiresAt |-> now + TTL]]
    /\ getter' = Disturb({h})
    /\ UNCHANGED <<now, sweeper>>

\* Delete(host), called by a user of the cache.
CacheDelete(h) ==
    /\ OnlyCache
    /\ certs' = [certs EXCEPT ![h] = NoEntry]
    /\ live' = [live EXCEPT ![h] = NoEntry]
    /\ getter' = Disturb({h})
    /\ UNCHANGED <<now, sweeper>>

\* Clear()
CacheClear ==
    /\ OnlyCache
    /\ certs' = [h \in CacheHosts |-> NoEntry]
    /\ live' = [h \in CacheHosts |-> NoEntry]
    /\ getter' = Disturb(CacheHosts)
    /\ UNCHANGED <<now, sweeper>>

\* Get(host): entry, ok := c.certs[host] under the read lock.
GetRead(g, h) ==
    /\ OnlyCache
    /\ getter[g].pc = "idle"
    /\ getter' = [getter EXCEPT ![g] = [IdleGetter EXCEPT !.pc = "check", !.host = h,
                                                          !.entry = certs[h],
                                                          !.expect = live[h]]]
    /\ UNCHANGED <<certs, now, sweeper, live>>

\* Whether a Get returning now was promised a hit: a Set was in force when it
\* was issued, no caller has touched the host since, its TTL has not elapsed.
Promised(g) ==
    /\ getter[g].expect.present
    /\ ~getter[g].disturbed
    /\ now <= getter[g].expect.expiresAt

\* What Get leaves with its caller: the result, whether a hit was promised,
\* and whether the certificate returned is the one that was Set.
GetReturn(g, result, cert) ==
    [IdleGetter EXCEPT !.result = result, !.mustHit = Promised(g),
                       !.right = (result = "hit" /\ cert = getter[g].expect.cert)]

\* Get(host): the lock released, !ok is a miss; time.Now().After(expiresAt)
\* goes on to c.Delete(host); otherwise a hit.
GetCheck(g) ==
    /\ OnlyCache
    /\ getter[g].pc = "check"
    /\ getter' = [getter EXCEPT ![g] =
                    IF ~getter[g].entry.present
                    THEN GetReturn(g, "miss", "")
                    ELSE IF now > getter[g].entry.expiresAt
                    THEN [@ EXCEPT !.pc = "delete"]
                    ELSE GetReturn(g, "hit", getter[g].entry.cert)]
    /\ UNCHANGED <<certs, now, sweeper, live>>

\* Get(host): c.Delete(host) of the expired entry, then a miss.
GetDelete(g) ==
    /\ OnlyCache
    /\ getter[g].pc = "delete"
    /\ certs' = [certs EXCEPT ![getter[g].host] = NoEntry]
    /\ getter' = [getter EXCEPT ![g] = GetReturn(g, "miss", "")]
    /\ UNCHANGED <<now, sweeper, live>>

\* cleanup(): now := time.Now(); collect the expired hosts under the read lock.
CleanupScan ==
    /\ OnlyCache
    /\ sweeper.pc = "idle"
    /\ LET expired == {h \in CacheHosts : certs[h].present /\ now > certs[h].expiresAt} IN
         /\ expired # {}
         /\ sweeper' = [pc |-> "delete", expired |-> expired]
    /\ UNCHANGED <<certs, now, getter, live>>

\* cleanup(): delete the collected hosts under the write lock.
CleanupDelete ==
    /\ OnlyCache
    /\ sweeper.pc = "delete"
    /\ certs' = [h \in CacheHosts |-> IF h \in sweeper.expired THEN NoEntry ELSE certs[h]]
    /\ sweeper' = [pc |-> "idle", expired |-> {}]
    /\ UNCHANGED <<now, getter, live>>

\* Time passes.
ClockTick ==
    /\ OnlyCache
    /\ now < MaxTime
    /\ now' = now + 1
    /\ UNCHANGED <<certs, getter, sweeper, live>>

InitTTL == Constructed

NextTTL ==
    \/ \E h \in CacheHosts, c \in Certs : CacheSet(h, c)
    \/ \E h \in CacheHosts : CacheDelete(h)
    \/ CacheClear
    \/ \E g \in Getters, h \in CacheHosts : GetRead(g, h)
    \/ \E g \in Getters : GetCheck(g)
    \/ \E g \in Getters : GetDelete(g)
    \/ CleanupScan
    \/ CleanupDelete
    \/ ClockTick

SpecTTL == InitTTL /\ [][NextTTL]_vars

(***************************************************************************)
(* Properties of the TTL leaf cache.                                       *)
(***************************************************************************)
\* C10: a Get(h) issued after Set(h, c) has returned, with no caller's Set,
\* Delete or Clear on h since and the TTL not elapsed when it returns, is a
\* hit and returns c.
C10_GetAfterSetHits ==
    \A g \in Getters :
        getter[g].mustHit => (getter[g].result = "hit" /\ getter[g].right)

(***************************************************************************)
(* LRUCertCache: every method holds c.mu for its whole body.               *)
(***************************************************************************)
\* The hosts in c.items
LruKeys(L) == {h \in LruHosts : L.items[h].present}

\* A faulty variant of remove: the tail pointer is not moved.
remove_TailKept(L, e) ==
    LET p == L.items[e].prev
        n == L.items[e].next
        L1 == IF p # NilEntry
              THEN [L EXCEPT !.items[p].next = n]
              ELSE [L EXCEPT !.head = n]
    IN IF n # NilEntry
       THEN [L1 EXCEPT !.items[n].prev = p]
       ELSE L1

\* remove(entry): unlink the entry from the list.
remove(L, e) ==
    LET p == L.items[e].prev
        n == L.items[e].next
        L1 == IF p # NilEntry
              THEN [L EXCEPT !.items[p].next = n]
              ELSE [L EXCEPT !.head = n]
    IN IF n # NilEntry
       THEN [L1 EXCEPT !.items[n].prev = p]
       ELSE [L1 EXCEPT !.tail = p]

\* addToFront(entry)
addToFront(L, e) ==
    LET L1 == [L EXCEPT !.items[e].prev = NilEntry, !.items[e].next = L.head]
        L2 == IF L.head # NilEntry
              THEN [L1 EXCEPT !.items[L.head].prev = e]
              ELSE L1
        L3 == [L2 EXCEPT !.head = e]
    IN IF L3.tail = NilEntry THEN [L3 EXCEPT !.tail = e] ELSE L3

\* moveToFront(entry)
moveToFront(L, e) ==
    IF e = L.head THEN L ELSE addToFront(remove(L, e), e)

\* An unlinked entry that has left c.items is garbage.
Collect(L) ==
    [L EXCEPT !.items = [h \in LruHosts |-> IF L.items[h].present THEN L.items[h]
                                            ELSE NoLruEntry]]

\* A faulty variant of Victim: the head is evicted.
Victim_Head(L) == L.head

\* evictLRU's choice: c.tail
Victim(L) == L.tail

\* evictLRU(): delete(c.items, c.tail.host); c.remove(c.tail)
evictLRU(L) ==
    IF Victim(L) = NilEntry THEN L
    ELSE remove([L EXCEPT !.items[Victim(L)].present = FALSE], Victim(L))

\* The history of accesses after one to host h (none if h is NilEntry),
\* kept to the hosts in keys.
SelectSeq2(s, keys) == SelectSeq(s, LAMBDA x : x \in keys)
Accessed(h, keys) ==
    SelectSeq2((IF h = NilEntry THEN <<>> ELSE <<h>>)
               \o SelectSeq(lruAccess, LAMBDA x : x # h), keys)

\* What an operation on host h leaves in the history variables.
LruRecord(op, h, hit, accessed, L) ==
    /\ lruAccess' = Accessed(IF accessed THEN h ELSE NilEntry, LruKeys(L))
    /\ lruLast' = [op |-> op, host |-> h, hit |-> hit,
                   sizeBefore |-> Cardinality(LruKeys(lru)),
                   oldest |-> IF lruAccess = <<>> THEN NilEntry ELSE lruAccess[Len(lruAccess)],
                   removed |-> LruKeys(lru) \ LruKeys(L)]

\* Get(host)
LruGet(h) ==
    /\ OnlyLRU
    /\ LET L == IF lru.items[h].present THEN moveToFront(lru, h) ELSE lru IN
         /\ lru' = L
         /\ LruRecord("get", h, lru.items[h].present, lru.items[h].present, L)

\* Set(host, cert)
LruSet(h, c) ==
    /\ OnlyLRU
    /\ LET L == IF lru.items[h].present
                THEN moveToFront([lru EXCEPT !.items[h].cert = c], h)
                ELSE LET L1 == addToFront([lru EXCEPT !.items[h] =
                                             [NoLruEntry EXCEPT !.present = TRUE, !.cert = c]], h)
                     IN IF Cardinality(LruKeys(L1)) > Capacity
                        THEN Collect(evictLRU(L1))
                        ELSE L1
       IN /\ lru' = L
          /\ LruRecord("set", h, lru.items[h].present, TRUE, L)

\* Delete(host)
LruDelete(h) ==
    /\ OnlyLRU
    /\ LET L == IF lru.items[h].present
                THEN Collect([remove(lru, h) EXCEPT !.items[h].present = FALSE])
                ELSE lru
       IN /\ lru' = L
          /\ LruRecord("delete", h, lru.items[h].present, FALSE, L)

\* Clear(), and Close(), which calls it.
LruClear ==
    /\ OnlyLRU
    /\ LET L == [items |-> [h \in LruHosts |-> NoLruEntry], head |-> NilEntry, tail |-> NilEntry]
       IN /\ lru' = L
          /\ LruRecord("clear", NilEntry, FALSE, FALSE, L)

InitLRU == Constructed

NextLRU ==
    \/ \E h \in LruHosts : LruGet(h)
    \/ \E h \in LruHosts, c \in Certs : LruSet(h, c)
    \/ \E h \in LruHosts : LruDelete(h)
    \/ LruClear

SpecLRU == InitLRU /\ [][NextLRU]_vars

(***************************************************************************)
(* Properties of the LRU leaf cache.                                       *)
(***************************************************************************)
\* C11: a Set of a new host while Capacity hosts are cached removes exactly
\* the host whose most recent access (Set or successful Get) is the oldest,
\* and a Get on a present host leaves that host off the next eviction, as
\* long as another host is cached.
C11_EvictsLeastRecentlyAccessed ==
    /\ (lruLast.op = "set" /\ ~lruLast.hit /\ lruLast.sizeBefore = Capacity)
       => /\ lruLast.removed = {lruLast.oldest}
          /\ lru.items[lruLast.host].present
    /\ (lruLast.op = "set" /\ (lruLast.hit \/ lruLast.sizeBefore < Capacity))
       => lruLast.removed = {}
    /\ (lruLast.op = "get" /\ lruLast.hit)
       => /\ lruLast.removed = {}
          /\ Cardinality(LruKeys(lru)) > 1 => Victim(lru) # lruLast.host
    /\ (lruLast.op \in {"get", "set"} /\ lru.items[lruLast.host].present)
       => lruAccess[1] = lruLast.host

\* C11 witness: a Get has promoted the oldest host, and the Set of a new
\* host into the full cache has then evicted the other one.
C11_Witness ==
    /\ lruLast.op = "set" /\ ~lruLast.hit /\ lruLast.sizeBefore = Capacity
    /\ lruLast.removed # {}
    /\ Len(lruAccess) = Capacity
    /\ \E h \in LruKeys(lru) : h # lruLast.host /\ lru.items[h].cert = "leaf2"

\* The entries reached from e through next pointers, at most n of them.
RECURSIVE Chain(_, _, _)
Chain(L, e, n) ==
    IF e = NilEntry \/ n = 0 THEN <<>>
    ELSE <<e>> \o Chain(L, L.items[e].next, n - 1)

ListFromHead(L) == Chain(L, L.head, Cardinality(LruHosts) + 1)

\* C40: after every operation the map holds at most Capacity entries, the
\* list from head through next holds exactly the map's entries, each once,
\* tail is its last element, prev and next agree, and head and tail are nil
\* exactly when the map is empty.
C40_LruListMatchesMap ==
    LET s == ListFromHead(lru)
        keys == LruKeys(lru)
    IN  /\ Cardinality(keys) <= Capacity
        /\ Len(s) = Cardinality(keys)
        /\ Range(s) = keys
        /\ lru.tail = (IF s = <<>> THEN NilEntry ELSE s[Len(s)])
        /\ (lru.head = NilEntry) <=> (keys = {})
        /\ (lru.tail = NilEntry) <=> (keys = {})
        /\ \A i \in 1..Len(s) :
             /\ lru.items[s[i]].prev = (IF i = 1 THEN NilEntry ELSE s[i - 1])
             /\ lru.items[s[i]].next = (IF i = Len(s) THEN NilEntry ELSE s[i + 1])

\* C40 witness: the tail was unlinked (by an eviction or a Delete) from a
\* list of several entries, and entries remain.
C40_Witness ==
    /\ lruLast.op \in {"set", "delete"}
    /\ lruLast.removed # {}
    /\ lruLast.oldest \in lruLast.removed
    /\ lruLast.sizeBefore > 1
    /\ LruKeys(lru) # {}

(***************************************************************************)
(* FileTrafficStore and DatabaseTrafficStore                               *)
(***************************************************************************)
\* The records the n-th call carries: one for Store, two for StoreBatch.
RecsOf(op, n) ==
    IF op = "Store" THEN <<2 * n - 1>>
    ELSE IF op = "StoreBatch" THEN <<2 * n - 1, 2 * n>>
    ELSE <<>>

\* What a call leaves with its caller.
Returned(u, err) == [sop EXCEPT ![u].pc = "done", ![u].err = err]

\* A goroutine calls a method of one of the stores.
StoreCall(u, store, op) ==
    /\ OnlyStore
    /\ sop[u].pc \in {"idle", "done"}
    /\ sopCount < MaxStoreOps
    /\ sopCount' = sopCount + 1
    /\ sop' = [sop EXCEPT ![u] = [pc |-> "called", store |-> store, op |-> op,
                                  recs |-> RecsOf(op, sopCount + 1),
                                  afterClose |-> closeDone[store],
                                  err |-> "none", persisted |-> 0]]
    /\ UNCHANGED <<fsKind, fsFileClosed, fsWritten, dbClosed, dbClientCloses, dbRows,
                   closeDone, stErrors, stSuccess>>

\* FileTrafficStore.Close: s.file.Close() if a file was opened, else nil;
\* closing an *os.File again returns os.ErrClosed.
FsClose(u) ==
    /\ OnlyStore
    /\ sop[u].pc = "called" /\ sop[u].store = "file" /\ sop[u].op = "Close"
    /\ IF fsKind = "path"
       THEN /\ fsFileClosed' = TRUE
            /\ sop' = Returned(u, IF fsFileClosed THEN "file already closed" ELSE "nil")
       ELSE /\ sop' = Returned(u, "nil")
            /\ UNCHANGED fsFileClosed
    /\ closeDone' = [closeDone EXCEPT !["file"] = TRUE]
    /\ UNCHANGED <<fsKind, fsWritten, dbClosed, dbClientCloses, dbRows, sopCount,
                   stErrors, stSuccess>>

\* FileTrafficStore.Store on the next record of the call (StoreBatch calls
\* it for each record and stops at the first error): marshal, then write the
\* line under s.mu; a write to a closed *os.File fails with os.ErrClosed.
FsStore(u) ==
    /\ OnlyStore
    /\ sop[u].pc = "called" /\ sop[u].store = "file" /\ sop[u].op \in WriteOps
    /\ \E ioErr \in BOOLEAN :
         LET rec == Head(sop[u].recs)
             err == IF fsKind = "path" /\ fsFileClosed THEN "file already closed"
                    ELSE IF ioErr THEN "io error" ELSE "nil"
         IN IF err # "nil"
            THEN /\ stErrors' = [stErrors EXCEPT !["file"] = @ + 1]
                 /\ sop' = Returned(u, err)
                 /\ UNCHANGED <<fsWritten, stSuccess>>
            ELSE /\ fsWritten' = Append(fsWritten, rec)
                 /\ stSuccess' = [stSuccess EXCEPT !["file"] = @ + 1]
                 /\ sop' = [sop EXCEPT ![u].recs = Tail(@),
                                       ![u].persisted = @ + 1,
                                       ![u].pc = IF Len(sop[u].recs) = 1 THEN "done" ELSE "called",
                                       ![u].err = IF Len(sop[u].recs) = 1 THEN "nil" ELSE "none"]
                 /\ UNCHANGED stErrors
    /\ UNCHANGED <<fsKind, fsFileClosed, dbClosed, dbClientCloses, dbRows, sopCount, closeDone>>

\* DatabaseTrafficStore.Close, under s.mu: nil if already closed, else set
\* s.closed and close the client.
DbClose(u) ==
    /\ OnlyStore
    /\ sop[u].pc = "called" /\ sop[u].store = "db" /\ sop[u].op = "Close"
    /\ IF dbClosed
       THEN /\ sop' = Returned(u, "nil")
            /\ UNCHANGED <<dbClosed, dbClientCloses>>
       ELSE /\ dbClosed' = TRUE
            /\ dbClientCloses' = dbClientCloses + 1
            /\ \E err \in {"nil", "db error"} : sop' = Returned(u, err)
    /\ closeDone' = [closeDone EXCEPT !["db"] = TRUE]
    /\ UNCHANGED <<fsKind, fsFileClosed, fsWritten, dbRows, sopCount, stErrors, stSuccess>>

\* The first statement of Store, StoreBatch, Query, GetByID, Count and Stats:
\* read s.closed under the read lock.
DbCheckClosed(u) ==
    /\ OnlyStore
    /\ sop[u].pc = "called" /\ sop[u].store = "db" /\ sop[u].op # "Close"
    /\ sop' = IF dbClosed THEN Returned(u, "store is closed")
              ELSE [sop EXCEPT ![u].pc = "run"]
    /\ UNCHANGED <<fsKind, fsFileClosed, fsWritten, dbClosed, dbClientCloses, dbRows, sopCount,
                   closeDone, stErrors, stSuccess>>

\* Store and StoreBatch past the check: one insert of all the records, which
\* fails on a closed client and may fail otherwise.
DbInsert(u) ==
    /\ OnlyStore
    /\ sop[u].pc = "run" /\ sop[u].op \in WriteOps
    /\ \E dbErr \in BOOLEAN :
         IF dbErr \/ dbClientCloses > 0
         THEN /\ stErrors' = [stErrors EXCEPT !["db"] = @ + 1]
              /\ sop' = Returned(u, "db error")
              /\ UNCHANGED <<dbRows, stSuccess>>
         ELSE /\ dbRows' = dbRows \o sop[u].recs
              /\ stSuccess' = [stSuccess EXCEPT !["db"] = @ + Len(sop[u].recs)]
              /\ sop' = [Returned(u, "nil") EXCEPT ![u].persisted = Len(sop[u].recs)]
              /\ UNCHANGED stErrors
    /\ UNCHANGED <<fsKind, fsFileClosed, fsWritten, dbClosed, dbClientCloses, sopCount, closeDone>>

\* Query, GetByID, Count and Stats past the check; Stats goes through Count,
\* which reads s.closed again.
DbRead(u) ==
    /\ OnlyStore
    /\ sop[u].pc = "run" /\ sop[u].op \in ReadOps
    /\ \E dbErr \in BOOLEAN :
         sop' = Returned(u, IF sop[u].op = "Stats" /\ dbClosed THEN "store is closed"
                            ELSE IF dbErr \/ dbClientCloses > 0 THEN "db error"
                            ELSE "nil")
    /\ UNCHANGED <<fsKind, fsFileClosed, fsWritten, dbClosed, dbClientCloses, dbRows, sopCount,
                   closeDone, stErrors, stSuccess>>

InitStore ==
    /\ Idle
    /\ NoCapture
    /\ \E kind \in FileKinds : NewStores(kind)

NextStore ==
    \/ \E u \in StoreUsers, s \in StoreNames : \E op \in OpsOf(s) : StoreCall(u, s, op)
    \/ \E u \in StoreUsers : FsClose(u)
    \/ \E u \in StoreUsers : FsStore(u)
    \/ \E u \in StoreUsers : DbClose(u)
    \/ \E u \in StoreUsers : DbCheckClosed(u)
    \/ \E u \in StoreUsers : DbInsert(u)
    \/ \E u \in StoreUsers : DbRead(u)

SpecStore == InitStore /\ [][NextStore]_vars

(***************************************************************************)
(* Properties of the concrete stores.                                      *)
(***************************************************************************)
\* C12: a Close call made after an earlier Close of the same store has
\* returned returns nil, for the file store and for the database store.
C12_StoreCloseIdempotent ==
    \A u \in StoreUsers :
        (sop[u].pc = "done" /\ sop[u].op = "Close" /\ sop[u].afterClose)
        => sop[u].err = "nil"

\* The errors that say the store (or its file) is closed.
ClosedErrors == {"store is closed", "file already closed"}

\* C13: a Store, StoreBatch, Query, GetByID, Count or Stats call made after
\* Close has returned on its store fails with a closed error and persists
\* nothing.
C13_OperationsAfterCloseFail ==
    \A u \in StoreUsers :
        (sop[u].pc = "done" /\ sop[u].op # "Close" /\ sop[u].afterClose)
        => (sop[u].err \in ClosedErrors /\ sop[u].persisted = 0)

(***************************************************************************)
(* Capturer: the headers and the body of one message                       *)
(***************************************************************************)
\* A faulty variant of normalizeHeader: the name is left as it is.
normalizeHeader_AsIs(s) == s

\* c += 'a' - 'A', for the bytes 'A' to 'Z'.
UpperToLower ==
    [c \in {UpperCase[k] : k \in 1..Len(UpperCase)} |->
        LowerCase[CHOOSE k \in 1..Len(UpperCase) : UpperCase[k] = c]]

\* normalizeHeader: A-Z to a-z, byte by byte.
normalizeHeader(s) ==
    [i \in 1..Len(s) |-> IF s[i] \in DOMAIN UpperToLower THEN UpperToLower[s[i]] ELSE s[i]]

\* filterHeaders: a header whose normalized name is a normalized entry of
\* FilterHeaders is skipped; of the others the first value is kept under the
\* normalized name.  The result map is the set of its <<key, value>> pairs.
filterHeaders(filterList, headers) ==
    LET filters == {normalizeHeader(filterList[i]) : i \in 1..Len(filterList)} IN
      {<<normalizeHeader(k), headers[k][1]>> :
          k \in {n \in DOMAIN headers :
                   /\ normalizeHeader(n) \notin filters
                   /\ Len(headers[n]) > 0}}

Min(a, b) == IF a < b THEN a ELSE b

\* req.ContentLength, resp.ContentLength
ContentLength(body) == IF body.lengthKnown THEN body.length ELSE -1

\* The condition under which StartCapture (a request) and FinishCapture (a
\* response) read the body.
ReadsBody(kind, c, body) ==
    /\ c.includeBody
    /\ ~body.bodyNil
    /\ kind = "request" => ContentLength(body) > 0
    /\ ContentLength(body) <= MaxBodySize

\* io.ReadAll(io.LimitReader(Body, MaxBodySize)): the number of bytes read.
BytesRead(body) == Min(body.length, MaxBodySize)

\* The body was read: err == nil && len(body) > 0.
BodyRead(kind, c, body) ==
    ReadsBody(kind, c, body) /\ ~body.readErr /\ BytesRead(body) > 0

\* A faulty variant of RecordedBody: binary bodies are kept.
RecordedBody_Kept(isBinary) == "parsed"

\* The Body field: the sentinel for binary content, else parseBody's value.
RecordedBody(isBinary) == IF isBinary THEN "[binary content]" ELSE "parsed"

\* The bytes left to the next reader of the message's Body (the upstream for
\* a request, the client for a response).  A body that was read is replaced
\* by the bytes read; after a failed read the Body is left as it is, a
\* reader that has failed.
ForwardedBody(kind, c, body) ==
    CASE ~ReadsBody(kind, c, body) -> body.length
      [] BodyRead(kind, c, body)   -> BytesRead(body)
      [] body.readErr              -> 0
      [] OTHER                     -> body.length - BytesRead(body)

\* The RequestRecord or ResponseRecord fields StartCapture and FinishCapture
\* fill from the headers and the body, and the Body they leave in the message.
CaptureMessage(kind, c, headers, body) ==
    LET read == BodyRead(kind, c, body)
        isBinary == read /\ c.skipBinary /\ body.binary
    IN [headers |-> IF c.includeHeaders /\ \E n \in DOMAIN headers : Len(headers[n]) > 0
                    THEN filterHeaders(DefaultFilterHeaders, headers)
                    ELSE {},
        bodySize |-> IF read THEN BytesRead(body) ELSE 0,
        isBinary |-> isBinary,
        body |-> IF read THEN RecordedBody(isBinary) ELSE "",
        forwarded |-> ForwardedBody(kind, c, body)]

\* StartCapture(req), for a request with any headers and body.
CaptureRequest ==
    /\ capIn.kind = "none"
    /\ OnlyCapture
    /\ \E c \in CaptureConfigs, headers \in HeaderMaps, body \in Bodies :
         /\ capIn' = [kind |-> "request", config |-> c, headers |-> headers, body |-> body]
         /\ capOut' = CaptureMessage("request", c, headers, body)

\* FinishCapture(rec, resp), for a response with any headers and body.
CaptureResponse ==
    /\ capIn.kind = "none"
    /\ OnlyCapture
    /\ \E c \in CaptureConfigs, headers \in HeaderMaps, body \in Bodies :
         /\ capIn' = [kind |-> "response", config |-> c, headers |-> headers, body |-> body]
         /\ capOut' = CaptureMessage("response", c, headers, body)

InitCapture == Idle /\ NewStores("path") /\ NoCapture

NextCapture == CaptureRequest \/ CaptureResponse

SpecCapture == InitCapture /\ [][NextCapture]_vars

(***************************************************************************)
(* Properties of the captured message.                                     *)
(***************************************************************************)
\* Two header names are equal, case-insensitively.
EqualFold(a, b) == ToUpper(a) = ToUpper(b)

\* The default sensitive set, in upper case.
SensitiveSet == {ToUpper(DefaultFilterHeaders[i]) : i \in 1..Len(DefaultFilterHeaders)}

\* C17: for a message carrying a header whose name equals, whatever the
\* case, a member of the default sensitive set, the record's headers hold
\* neither a key equal to that name nor any of the header's values.
C17_SensitiveHeadersRedacted ==
    capIn.kind # "none" =>
        \A n \in DOMAIN capIn.headers :
            (Len(capIn.headers[n]) > 0 /\ ToUpper(n) \in SensitiveSet)
            => \A kv \in capOut.headers :
                   /\ ~EqualFold(kv[1], n)
                   /\ \A j \in 1..Len(capIn.headers[n]) : kv[2] # capIn.headers[n][j]

\* C17 witness: a message with an upper-case COOKIE header, an Authorization
\* header and an Accept header was captured with headers included, and the
\* record holds the Accept header.
C17_Witness ==
    /\ capIn.kind = "request"
    /\ capIn.config.includeHeaders
    /\ Len(capIn.headers[HdrCookieUpper]) > 0
    /\ Len(capIn.headers[HdrAuthorization]) > 0
    /\ capOut.headers = {<<normalizeHeader(HdrAccept), "plain1">>}

\* C18: with SkipBinary set, a body that was read and that the classifier
\* reports as binary is recorded as binary, with the sentinel as its body and
\* the number of bytes of the body, cut at MaxBodySize, as its size.
C18_BinaryBodyReplaced ==
    (/\ capIn.kind # "none"
     /\ capIn.config.skipBinary
     /\ BodyRead(capIn.kind, capIn.config, capIn.body)
     /\ capIn.body.binary)
    => /\ capOut.isBinary
       /\ capOut.body = "[binary content]"
       /\ capOut.bodySize = Min(capIn.body.length, MaxBodySize)

\* C18 witness: a binary response body longer than MaxBodySize, of unknown
\* length, was read up to the cap and replaced.
C18_Witness ==
    /\ capIn.kind = "response"
    /\ capIn.config.skipBinary /\ capIn.body.binary
    /\ capIn.body.length > MaxBodySize
    /\ capOut.isBinary
    /\ capOut.bodySize = MaxBodySize

\* C34: capture leaves the body as it was: when reading the body does not
\* fail, the bytes left for the client (of a response) or for the upstream
\* (of a request) are all the bytes of the body, also with unknown
\* Content-Length and with a body longer than MaxBodySize.
C34_CaptureForwardsWholeBody ==
    (capIn.kind # "none" /\ ~capIn.body.bodyNil /\ ~capIn.body.readErr)
        => capOut.forwarded = capIn.body.length

\* C19: in every captured record the body size is the byte length of the
\* message's body, whether the body was kept, replaced or left out.
C19_BodySizeIsOriginalLength ==
    capIn.kind # "none" =>
        capOut.bodySize = (IF capIn.body.bodyNil THEN 0 ELSE capIn.body.length)

(***************************************************************************)
(* ca.LoadOrCreate, ca.Load, ca.New and CA.Save.  Each os.Stat, os.ReadFile*)
(* and os.WriteFile is one step; a process may crash between any two.      *)
(***************************************************************************)
CAStep(p, pc) == [caProc EXCEPT ![p].pc = pc]

\* LoadOrCreate: os.Stat(certPath).
StatCert(p) ==
    /\ caProc[p].pc = "idle"
    /\ OnlyCA
    /\ caProc' = [caProc EXCEPT ![p] = [IdleCAProc EXCEPT
                     !.pc = IF caCert # Absent THEN "statKey" ELSE "new"]]
    /\ UNCHANGED <<caCert, caKey, nextCA>>

\* LoadOrCreate: os.Stat(keyPath), when the certificate file exists.
StatKey(p) ==
    /\ caProc[p].pc = "statKey"
    /\ OnlyCA
    /\ caProc' = CAStep(p, IF caKey # Absent THEN "readCert" ELSE "new")
    /\ UNCHANGED <<caCert, caKey, nextCA>>

\* Load: os.ReadFile(certPath).
ReadCert(p) ==
    /\ caProc[p].pc = "readCert"
    /\ OnlyCA
    /\ caProc' = [caProc EXCEPT ![p].pc = "readKey", ![p].cert = caCert]
    /\ UNCHANGED <<caCert, caKey, nextCA>>

\* Load: os.ReadFile(keyPath), then LoadFromPEM, which parses the two PEM
\* blocks and returns them as one CA.
LoadFromPEM(certPEM, keyPEM) == [cert |-> certPEM, key |-> keyPEM]

ReadKey(p) ==
    /\ caProc[p].pc = "readKey"
    /\ OnlyCA
    /\ caProc' = [caProc EXCEPT ![p].pc = "done",
                                ![p].result = LoadFromPEM(caProc[p].cert, caKey)]
    /\ UNCHANGED <<caCert, caKey, nextCA>>

\* New: a fresh key pair and its self-signed certificate.
NewCA(p) ==
    /\ caProc[p].pc = "new"
    /\ nextCA <= MaxCAs
    /\ OnlyCA
    /\ caProc' = [caProc EXCEPT ![p].pc = "writeCert", ![p].ca = nextCA]
    /\ nextCA' = nextCA + 1
    /\ UNCHANGED <<caCert, caKey>>

\* Save: os.WriteFile(certPath, ca.certPEM, 0644); on an error Save and
\* LoadOrCreate return it.
WriteCert(p) ==
    /\ caProc[p].pc = "writeCert"
    /\ OnlyCA
    /\ \E ok \in BOOLEAN :
         /\ caCert' = IF ok THEN caProc[p].ca ELSE caCert
         /\ caProc' = CAStep(p, IF ok THEN "writeKey" ELSE "failed")
    /\ UNCHANGED <<caKey, nextCA>>

\* Save: os.WriteFile(keyPath, ca.keyPEM, 0600); LoadOrCreate returns the CA
\* it generated.
WriteKey(p) ==
    /\ caProc[p].pc = "writeKey"
    /\ OnlyCA
    /\ \E ok \in BOOLEAN :
         /\ caKey' = IF ok THEN caProc[p].ca ELSE caKey
         /\ caProc' = IF ok
                      THEN [caProc EXCEPT ![p].pc = "done",
                                          ![p].result = [cert |-> caProc[p].ca,
                                                         key |-> caProc[p].ca]]
                      ELSE CAStep(p, "failed")
    /\ UNCHANGED <<caCert, nextCA>>

\* The process is killed inside LoadOrCreate; the files stay as they are.
Crash(p) ==
    /\ caProc[p].pc \notin {"idle", "done", "failed"}
    /\ OnlyCA
    /\ caProc' = [caProc EXCEPT ![p] = IdleCAProc]
    /\ UNCHANGED <<caCert, caKey, nextCA>>

\* The process is started again and calls LoadOrCreate again.
Restart(p) ==
    /\ caProc[p].pc \in {"done", "failed"}
    /\ OnlyCA
    /\ caProc' = [caProc EXCEPT ![p] = IdleCAProc]
    /\ UNCHANGED <<caCert, caKey, nextCA>>

InitCA == Constructed

NextCA ==
    \/ \E p \in CAProcs : StatCert(p)
    \/ \E p \in CAProcs : StatKey(p)
    \/ \E p \in CAProcs : ReadCert(p)
    \/ \E p \in CAProcs : ReadKey(p)
    \/ \E p \in CAProcs : NewCA(p)
    \/ \E p \in CAProcs : WriteCert(p)
    \/ \E p \in CAProcs : WriteKey(p)
    \/ \E p \in CAProcs : Crash(p)
    \/ \E p \in CAProcs : Restart(p)

SpecCA == InitCA /\ [][NextCA]_vars

\* C22: the two CA files are at every moment both absent or the certificate
\* and the key of the same CA, and LoadOrCreate never returns a certificate
\* paired with another CA's key.
C22_CAFilesAlwaysMatchingPair ==
    /\ caCert = caKey
    /\ \A p \in CAProcs : caProc[p].result.cert = caProc[p].result.key

(***************************************************************************)
(* observability.HealthChecker                                             *)
(***************************************************************************)
\* SetReady, under h.mu.
SetReady(ready) ==
    /\ OnlyHealth
    /\ hReady' = ready
    /\ UNCHANGED <<hChecks, hHealth, hReq>>

\* RegisterCheck, under h.mu.
RegisterCheck(name) ==
    /\ OnlyHealth
    /\ hChecks' = hChecks \cup {name}
    /\ UNCHANGED <<hReady, hHealth, hReq>>

\* What a check function looks at changes.
HealthChanges(name, result) ==
    /\ OnlyHealth
    /\ hHealth[name] # result
    /\ hHealth' = [hHealth EXCEPT ![name] = result]
    /\ UNCHANGED <<hReady, hChecks, hReq>>

\* ReadinessHandler: under the read lock, read h.ready and copy h.checks.
ReadyzSnapshot ==
    /\ hReq.pc \in {"idle", "responded"}
    /\ OnlyHealth
    /\ hReq' = [IdleReq EXCEPT !.pc = "checks", !.ready = hReady,
                               !.checks = hChecks, !.todo = hChecks]
    /\ UNCHANGED <<hReady, hChecks, hHealth>>

\* One iteration of `for name, check := range checks`, in map order.
ReadyzCheck(name) ==
    /\ hReq.pc = "checks"
    /\ name \in hReq.todo
    /\ OnlyHealth
    /\ LET err == hHealth[name] IN
         hReq' = [hReq EXCEPT !.todo = @ \ {name},
                              !.results[name] = err,
                              !.body[name] = IF err # "nil" THEN err ELSE "ok"]
    /\ UNCHANGED <<hReady, hChecks, hHealth>>

\* allHealthy: ready, and no check returned an error.
allHealthy(req) ==
    req.ready /\ \A n \in req.checks : req.results[n] = "nil"

\* After the loop: the "ready" key, the status code, the body.
ReadyzRespond ==
    /\ hReq.pc = "checks"
    /\ hReq.todo = {}
    /\ OnlyHealth
    /\ hReq' = [hReq EXCEPT !.pc = "responded",
                            !.body["ready"] = IF ~hReq.ready THEN "not ready" ELSE @,
                            !.code = IF allHealthy(hReq) THEN 200 ELSE 503]
    /\ UNCHANGED <<hReady, hChecks, hHealth>>

InitHealth == Constructed

NextHealth ==
    \/ \E ready \in BOOLEAN : SetReady(ready)
    \/ \E name \in CheckNames : RegisterCheck(name)
    \/ \E name \in CheckNames, result \in CheckResults : HealthChanges(name, result)
    \/ ReadyzSnapshot
    \/ \E name \in CheckNames : ReadyzCheck(name)
    \/ ReadyzRespond

SpecHealth == InitHealth /\ [][NextHealth]_vars

\* C23: GET /readyz answers 200 iff the ready flag was set and every
\* registered check passed when the handler looked; otherwise it answers 503
\* and the body gives, for each failing check, the reason the check gave.
C23_ReadyzReportsEachFailure ==
    hReq.pc = "responded" =>
        LET pass == hReq.ready /\ \A n \in hReq.checks : hReq.results[n] = "nil" IN
          /\ hReq.code = 200 <=> pass
          /\ ~pass =>
               /\ hReq.code = 503
               /\ \A n \in hReq.checks :
                     hReq.results[n] # "nil" => hReq.body[n] = hReq.results[n]

(***************************************************************************)
(* DatabaseTrafficStore.Query, Count and Stats.  The database evaluates a  *)
(* query: the WHERE predicates, ORDER BY on one column, OFFSET and LIMIT.  *)
(***************************************************************************)
\* The predicates Query and Count add to the query, one per filter field
\* that is set.
Where(f, r) ==
    /\ f.startTime # 0 => r.startedAt >= f.startTime
    /\ Len(f.methods) > 0 => r.method \in Range(f.methods)
    /\ f.minStatus > 0 => r.status >= f.minStatus

Matching(table, f) == {id \in DOMAIN table : Where(f, table[id])}

\* The ORDER BY key of a row: the OrderBy column, or started_at by default;
\* descending when Desc is set or by default.
OrderKey(table, o, id) == IF o.orderBy = "id" THEN id ELSE table[id].startedAt
OrderDesc(o) == IF o.orderBy = "" THEN TRUE ELSE o.desc

\* The orders in which the database may return a set of rows under ORDER BY
\* on that key: rows with equal keys come in any order.
Orders(table, ids, o) ==
    {s \in [1..Cardinality(ids) -> ids] :
       /\ \A i, j \in DOMAIN s : i # j => s[i] # s[j]
       /\ \A i, j \in DOMAIN s :
            i < j => IF OrderDesc(o)
                     THEN OrderKey(table, o, s[i]) >= OrderKey(table, o, s[j])
                     ELSE OrderKey(table, o, s[i]) <= OrderKey(table, o, s[j])}

\* OFFSET and LIMIT, each applied when greater than 0.
Page(s, limit, offset) ==
    LET from == offset + 1
        to == IF limit > 0 THEN Min(Len(s), offset + limit) ELSE Len(s)
    IN  SubSeq(s, from, to)

\* query.Count.
Count(table, f) == Cardinality(Matching(table, f))

\* Store: a row is created, with the next id.  Rows come before the reads.
StoreRow ==
    /\ Len(qTable) < MaxRows
    /\ qLog = <<>> /\ qStats = NoStats
    /\ OnlyQuery
    /\ \E r \in Rows : qTable' = Append(qTable, r)
    /\ UNCHANGED <<qLog, qStats>>

\* Query, called by a client that reads a first page of k rows and then,
\* with the same filter, the page at offset k.
Query ==
    /\ Len(qLog) < 2
    /\ OnlyQuery
    /\ \E f \in RowFilters, o \in Orderings, k \in PageSizes :
         /\ Len(qLog) = 1 => f = qLog[1].filter /\ o = qLog[1].order /\ k = qLog[1].limit
         /\ LET offset == IF qLog = <<>> THEN 0 ELSE k IN
              \E s \in Orders(qTable, Matching(qTable, f), o) :
                 qLog' = Append(qLog, [filter |-> f, order |-> o, limit |-> k,
                                       offset |-> offset,
                                       result |-> Page(s, k, offset)])
    /\ qStats' = NoStats
    /\ UNCHANGED qTable

\* The paging client starts over.
QueryAgain ==
    /\ Len(qLog) = 2
    /\ OnlyQuery
    /\ qLog' = <<>>
    /\ UNCHANGED <<qTable, qStats>>

\* The filter Stats builds for its second Count: MinStatus 400, and the
\* caller's StartTime (EndTime and Hosts likewise).
errorFilter(f) == [startTime |-> f.startTime, methods |-> <<>>, minStatus |-> 400]

\* The filter of the Query whose rows Stats aggregates: &TrafficFilter{Limit:
\* 10000}, which selects every row (the table is shorter than the limit).
sampleFilter == [startTime |-> 0, methods |-> <<>>, minStatus |-> 0]

\* Stats: total and errors are two Count calls; RequestsByMethod and
\* RequestsByStatus are counted over the rows of a third query.
Stats ==
    /\ OnlyQuery
    /\ \E f \in RowFilters :
         LET sampled == Matching(qTable, sampleFilter) IN
         qStats' = [called |-> TRUE, filter |-> f,
                    total |-> Count(qTable, f),
                    errors |-> Count(qTable, errorFilter(f)),
                    byMethod |-> [mth \in QueryMethods |->
                                    Cardinality({id \in sampled : qTable[id].method = mth})],
                    byStatus |-> [st \in QueryStatuses |->
                                    Cardinality({id \in sampled : qTable[id].status = st})]]
    /\ qLog' = <<>>
    /\ UNCHANGED qTable

InitQuery == Constructed

NextQuery == StoreRow \/ Query \/ QueryAgain \/ Stats

SpecQuery == InitQuery /\ [][NextQuery]_vars

\* C24: Query(limit k, offset 0) followed by Query(limit k, offset k) under
\* the same filter returns the first 2k matching rows with no row twice and
\* none skipped: the two pages share no row and together hold 2k rows (or
\* all matching rows, if fewer).
C24_PagesCoverWithoutDuplicates ==
    Len(qLog) = 2 =>
        LET p1 == qLog[1].result
            p2 == qLog[2].result
            k == qLog[1].limit
        IN  /\ Range(p1) \cap Range(p2) = {}
            /\ Len(p1) + Len(p2) = Min(2 * k, Count(qTable, qLog[1].filter))

\* C25: Stats(filter) returns as total the number of rows matching the
\* filter and as errors the number of rows matching the filter whose status
\* is 400 or more.
C25_StatsCountsAreExact ==
    qStats.called =>
        /\ qStats.total = Cardinality(Matching(qTable, qStats.filter))
        /\ qStats.errors =
             Cardinality({id \in Matching(qTable, qStats.filter) :
                            qTable[id].status >= 400})

\* The sum of the values of a map of counts.
RECURSIVE SumOf(_, _)
SumOf(counts, keys) ==
    IF keys = {} THEN 0
    ELSE LET k == CHOOSE x \in keys : TRUE
         IN counts[k] + SumOf(counts, keys \ {k})

\* C39: in the result of Stats(filter) the values of requests_by_method sum
\* to total, so do the values of requests_by_status, and errors is at most
\* total.
C39_StatsBreakdownSumsToTotal ==
    qStats.called =>
        /\ SumOf(qStats.byMethod, QueryMethods) = qStats.total
        /\ SumOf(qStats.byStatus, QueryStatuses) = qStats.total
        /\ qStats.errors <= qStats.total

(***************************************************************************)
(* runServe with --format har.  What runServe wires together decides who   *)
(* writes to the output and when.                                          *)
(***************************************************************************)
\* harWriter is created only when an output file is given.
HasHarWriter(o) == o.format = "har" /\ o.output = "file"
\* Capturer.output: nil with a HARWriter, DefaultConfig's os.Stdout otherwise.
CapturerWrites(o) == ~HasHarWriter(o)
\* The traffic store: the database if --db is given, else a FileTrafficStore
\* opened on the output path if --output is given, else none.
StoreKind(o) == IF o.db THEN "db" ELSE IF o.output = "file" THEN "file" ELSE "none"

\* A written record line (json.Marshal and a newline) and a HAR document.
RecordLine(r) == [kind |-> "record", rec |-> r]
HarDocument(entries) == [kind |-> "har", entries |-> entries]

\* runServe up to ListenAndServe: the output file, the Capturer, the
\* HARWriter and the traffic store are set up as the options say.
RunServe ==
    /\ srvPhase = "off"
    /\ OnlyServe
    /\ srvOpts' \in ServeOpts
    /\ srvPhase' = "running"
    /\ UNCHANGED <<srvCaptured, harEntries, srvPending, srvOut>>

\* finishRecord for a captured transaction: the HAR handler, the store
\* handler, then writeRecord.
RecordCaptured ==
    /\ srvPhase \in {"running", "harWritten"}
    /\ srvCaptured < MaxCaptured
    /\ OnlyServe
    /\ LET r == srvCaptured + 1 IN
         /\ srvCaptured' = r
         /\ harEntries' = IF HasHarWriter(srvOpts) THEN Append(harEntries, r)
                          ELSE harEntries
         /\ srvPending' = IF StoreKind(srvOpts) # "none" THEN Append(srvPending, r)
                          ELSE srvPending
         /\ srvOut' = IF CapturerWrites(srvOpts) THEN Append(srvOut, RecordLine(r))
                      ELSE srvOut
    /\ UNCHANGED <<srvOpts, srvPhase>>

\* A worker of the async wrapper passes the oldest pending record to the
\* inner store: FileTrafficStore.Store writes it to the file at opts.output,
\* the database store inserts a row.
StoreToOutput(o, out, recs) ==
    IF StoreKind(o) = "file"
    THEN out \o [i \in 1..Len(recs) |-> RecordLine(recs[i])]
    ELSE out

WorkerStores ==
    /\ srvPhase \in {"running", "harWritten"}
    /\ srvPending # <<>>
    /\ OnlyServe
    /\ srvOut' = StoreToOutput(srvOpts, srvOut, <<Head(srvPending)>>)
    /\ srvPending' = Tail(srvPending)
    /\ UNCHANGED <<srvOpts, srvPhase, srvCaptured, harEntries>>

\* The shutdown goroutine after the signal: harWriter.Write().
ShutdownWriteHar ==
    /\ srvPhase = "running"
    /\ OnlyServe
    /\ srvPhase' = "harWritten"
    /\ srvOut' = IF HasHarWriter(srvOpts) THEN Append(srvOut, HarDocument(harEntries))
                 ELSE srvOut
    /\ UNCHANGED <<srvOpts, srvCaptured, harEntries, srvPending>>

\* The shutdown goroutine: Flush and Close of the traffic store, os.Exit(0).
ShutdownCloseStore ==
    /\ srvPhase = "harWritten"
    /\ OnlyServe
    /\ srvPhase' = "exited"
    /\ srvOut' = StoreToOutput(srvOpts, srvOut, srvPending)
    /\ srvPending' = <<>>
    /\ UNCHANGED <<srvOpts, srvCaptured, harEntries>>

InitServe == Constructed

NextServe == RunServe \/ RecordCaptured \/ WorkerStores \/ ShutdownWriteHar \/ ShutdownCloseStore

SpecServe == InitServe /\ [][NextServe]_vars

\* C26: with format har nothing is written to the output while the proxy
\* runs, and once it has closed the output holds exactly one HAR document
\* with exactly one entry per captured Record.
C26_HarWrittenOnceAtClose ==
    /\ (srvPhase = "running" /\ srvOpts.format = "har") => srvOut = <<>>
    /\ (srvPhase = "exited" /\ srvOpts.format = "har") =>
         /\ Len(srvOut) = 1
         /\ srvOut[1].kind = "har"
         /\ Len(srvOut[1].entries) = srvCaptured
         /\ Range(srvOut[1].entries) = 1..srvCaptured

\* The writes of record r's line made to the output.
WritesOf(r) == {i \in 1..Len(srvOut) : srvOut[i] = RecordLine(r)}

\* C35: with --output and a record-by-record format, each captured record
\* is written to the output file at most once, and exactly once when
\* runServe has shut down.
C35_FileOutputWrittenOnce ==
    (srvPhase # "off" /\ srvOpts.output = "file" /\ srvOpts.format = "ndjson")
        => /\ \A r \in 1..srvCaptured : Cardinality(WritesOf(r)) <= 1
           /\ srvPhase = "exited" =>
                 \A r \in 1..srvCaptured : Cardinality(WritesOf(r)) = 1

(***************************************************************************)
(* SamplingTrafficStore                                                    *)
(***************************************************************************)
\* matchHost(host, pattern) of pkg/backend: a pattern starting with "*"
\* matches by suffix (a leading "." of the suffix dropped), any other
\* pattern by equality; the empty pattern matches nothing.
matchHostPattern(host, pattern) ==
    IF pattern = <<>> THEN FALSE
    ELSE IF pattern[1] = "*"
    THEN LET rest == SubSeq(pattern, 2, Len(pattern))
             suffix == IF Len(rest) > 0 /\ rest[1] = "." THEN SubSeq(rest, 2, Len(rest))
                       ELSE rest
         IN  HasSuffix(host, suffix)
    ELSE host = pattern

OnList(list, host) == \E i \in 1..Len(list) : matchHostPattern(host, list[i])

\* A faulty variant of Verdict: the always-capture list is consulted first.
Verdict_AlwaysFirst(c, host) ==
    IF OnList(c.alwaysCapture, host) THEN "forward"
    ELSE IF OnList(c.neverCapture, host) THEN "drop"
    ELSE "sample"

\* Store up to the call of shouldSample: the never-capture loop, then the
\* always-capture loop.
Verdict(c, host) ==
    IF OnList(c.neverCapture, host) THEN "drop"
    ELSE IF OnList(c.alwaysCapture, host) THEN "forward"
    ELSE "sample"

\* uint64(1.0 / s.sampleRate), for 0 < sampleRate < 1.
Interval(rate) == rate.den \div rate.num

NewSamplingTrafficStore ==
    /\ ~smpCfg.set
    /\ OnlySampling
    /\ \E c \in SamplingConfigs :
         smpCfg' = [set |-> TRUE, sampleRate |-> c.sampleRate,
                    alwaysCapture |-> c.alwaysCapture, neverCapture |-> c.neverCapture]
    /\ UNCHANGED <<smpCounter, smpCall, smpLog>>

\* Store(rec) up to the lock in shouldSample: the two lists, then the two
\* early returns of shouldSample.
SamplingStore(c, host) ==
    /\ smpCfg.set
    /\ smpCall[c].pc \in {"idle", "done"}
    /\ OnlySampling
    /\ LET v == Verdict(smpCfg, host)
           rate == smpCfg.sampleRate
           call == [IdleSamplingCall EXCEPT !.host = host]
       IN  smpCall' = [smpCall EXCEPT ![c] =
                 IF v = "drop" THEN [call EXCEPT !.pc = "done"]
                 ELSE IF v = "forward" THEN [call EXCEPT !.pc = "done", !.forwarded = TRUE]
                 ELSE IF rate.num >= rate.den
                      THEN [call EXCEPT !.pc = "done", !.forwarded = TRUE]
                 ELSE IF rate.num <= 0 THEN [call EXCEPT !.pc = "done"]
                 ELSE [call EXCEPT !.pc = "lock"]]
    /\ UNCHANGED <<smpCfg, smpCounter, smpLog>>

\* shouldSample, under s.mu: s.counter++; counter := s.counter.
ShouldSampleCount(c) ==
    /\ smpCall[c].pc = "lock"
    /\ smpCounter < MaxCounted
    /\ OnlySampling
    /\ smpCounter' = smpCounter + 1
    /\ smpCall' = [smpCall EXCEPT ![c].pc = "decide", ![c].counter = smpCounter + 1]
    /\ smpLog' = Append(smpLog, "counted")
    /\ UNCHANGED smpCfg

\* shouldSample after the unlock: counter%interval == 0; then Store passes
\* the record to the inner store or returns nil.
ShouldSampleDecide(c) ==
    /\ smpCall[c].pc = "decide"
    /\ OnlySampling
    /\ LET sampled == smpCall[c].counter % Interval(smpCfg.sampleRate) = 0 IN
         /\ smpCall' = [smpCall EXCEPT ![c].pc = "done", ![c].forwarded = sampled]
         /\ smpLog' = [smpLog EXCEPT ![smpCall[c].counter] =
                          IF sampled THEN "forwarded" ELSE "dropped"]
    /\ UNCHANGED <<smpCfg, smpCounter>>

InitSampling == Constructed

NextSampling ==
    \/ NewSamplingTrafficStore
    \/ \E c \in SamplingCallers, host \in Hosts : SamplingStore(c, host)
    \/ \E c \in SamplingCallers : ShouldSampleCount(c)
    \/ \E c \in SamplingCallers : ShouldSampleDecide(c)

SpecSampling == InitSampling /\ [][NextSampling]_vars

FilterMatchRequest ==
    /\ fltIn.kind = "none"
    /\ OnlyFilter
    /\ \E f \in RequestFilters, host \in Hosts, path \in Paths, method \in RequestMethods :
         /\ fltIn' = [kind |-> "request", filter |-> f, host |-> host, path |-> path,
                      method |-> method]
         /\ fltOut' = MatchRequest(f, host, path, method)

\* wildcardToRegexp(pattern), then MatchString(input) on the result.
PatternMatchString ==
    /\ fltIn.kind = "none"
    /\ OnlyFilter
    /\ \E pattern \in SeqsUpTo(PatternChars, MaxPatternLen),
          input \in SeqsUpTo(InputChars, MaxInputLen) :
         /\ fltIn' = [kind |-> "pattern", pattern |-> pattern, input |-> input]
         /\ fltOut' = MatchString(wildcardToRegexp(pattern), input)

InitFilter == Constructed

NextFilter == FilterMatchRequest \/ PatternMatchString

SpecFilter == InitFilter /\ [][NextFilter]_vars

\* A value passes a pair of lists: the include list is empty or some entry
\* of it fits the value, and no entry of the exclude list fits it.
Passes(value, include, exclude, Fits(_, _)) ==
    /\ include = <<>> \/ \E i \in 1..Len(include) : Fits(include[i], value)
    /\ ~\E i \in 1..Len(exclude) : Fits(exclude[i], value)

WildcardFits(pattern, value) == MatchString(wildcardToRegexp(pattern), value)
SameMethod(a, b) == normalizeHeader(a) = normalizeHeader(b)

\* C28: MatchRequest(host, path, method) is true iff host, path and method
\* each pass their own include and exclude lists; an exclude entry rejects a
\* value even if an include entry fits it; methods are compared without
\* regard to case.
C28_MatchRequestIsConjunction ==
    fltIn.kind = "request" =>
        (fltOut <=>
           /\ Passes(fltIn.host, fltIn.filter.includeHosts, fltIn.filter.excludeHosts,
                     WildcardFits)
           /\ Passes(fltIn.path, fltIn.filter.includePaths, fltIn.filter.excludePaths,
                     WildcardFits)
           /\ Passes(fltIn.method, fltIn.filter.includeMethods,
                     fltIn.filter.excludeMethods, SameMethod))

\* C28 witness: a path that an include pattern fits and an exclude pattern
\* fits too is rejected, with host and lower-case method passing.
C28_Witness ==
    /\ fltIn.kind = "request"
    /\ fltIn.path = PathAppJs
    /\ fltIn.filter.includePaths = <<PatApi>> /\ fltIn.filter.excludePaths = <<PatJs>>
    /\ fltIn.filter.includeHosts = <<HostApi>> /\ fltIn.host = HostApi
    /\ fltIn.filter.excludeHosts = <<PatPinned>>
    /\ fltIn.method = MethodGetLower
    /\ fltIn.filter.includeMethods = <<MethodPost, MethodGet>>
    /\ fltIn.filter.excludeMethods = <<>>
    /\ ~fltOut

\* What the wildcard language says: "*" stands for any run of characters,
\* the empty run included, "?" for exactly one character, any other
\* character for itself; the whole input must be used up.
RECURSIVE WildcardMatches(_, _)
WildcardMatches(pattern, input) ==
    IF pattern = <<>> THEN input = <<>>
    ELSE IF Head(pattern) = "*"
         THEN \/ WildcardMatches(Tail(pattern), input)
              \/ input # <<>> /\ WildcardMatches(pattern, Tail(input))
    ELSE IF Head(pattern) = "?"
         THEN input # <<>> /\ WildcardMatches(Tail(pattern), Tail(input))
    ELSE input # <<>> /\ Head(input) = Head(pattern)
         /\ WildcardMatches(Tail(pattern), Tail(input))

\* C29: a compiled wildcard pattern matches an input iff the whole input
\* matches the pattern with "*" as any run of characters, "?" as exactly one
\* character and every other character as itself.
C29_WildcardSemantics ==
    fltIn.kind = "pattern" =>
        (fltOut <=> WildcardMatches(fltIn.pattern, fltIn.input))

(***************************************************************************)
(* contentdetect.isValidUTF8                                               *)
(***************************************************************************)
\* b & mask for a mask that keeps the high bits above the low `low` bits
\* (0xE0, 0xF0, 0xF8 keep all but the low 5, 4, 3).
AndHigh(b, low) == (b \div (2 ^ low)) * (2 ^ low)

\* The switch on data[i]: the size of the sequence the lead byte announces,
\* or 0 where the function returns false at once.
SequenceSize(b) ==
    IF AndHigh(b, 5) = 192 THEN (IF b < 194 THEN 0 ELSE 2)
    ELSE IF AndHigh(b, 4) = 224 THEN 3
    ELSE IF AndHigh(b, 3) = 240 THEN (IF b > 244 THEN 0 ELSE 4)
    ELSE 0

\* The loop of isValidUTF8 from index i (1-based).
RECURSIVE ValidFrom(_, _)
ValidFrom(data, i) ==
    IF i > Len(data) THEN TRUE
    ELSE IF data[i] < 128 THEN ValidFrom(data, i + 1)
    ELSE LET size == SequenceSize(data[i]) IN
         IF size = 0 THEN FALSE
         ELSE IF i - 1 + size > Len(data) THEN FALSE
         ELSE IF \E j \in 1..(size - 1) : data[i + j] < 128 \/ data[i + j] > 191 THEN FALSE
         ELSE ValidFrom(data, i + size)

isValidUTF8(data) == ValidFrom(data, 1)

ValidateUTF8 ==
    /\ ~utfIn.set
    /\ OnlyUTF8
    /\ \E data \in SeqsUpTo(DataBytes, MaxBytes) :
         /\ utfIn' = [set |-> TRUE, data |-> data]
         /\ utfOut' = isValidUTF8(data)

InitUTF8 == Constructed

NextUTF8 == ValidateUTF8

SpecUTF8 == InitUTF8 /\ [][NextUTF8]_vars

\* The defects of a byte sequence read as UTF-8 from index i, first one
\* found: an invalid start byte (a continuation byte or 0xF8 and above where
\* a sequence starts), a 4-byte lead above 0xF4, a truncated sequence (too
\* few continuation bytes follow the lead), an overlong encoding (0xC0 or
\* 0xC1; 0xE0 followed by less than 0xA0; 0xF0 followed by less than 0x90).
IsContinuation(b) == 128 <= b /\ b <= 191
LeadSize(b) == IF b < 224 THEN 2 ELSE IF b < 240 THEN 3 ELSE 4

RECURSIVE Defect(_, _)
Defect(data, i) ==
    IF i > Len(data) THEN "none"
    ELSE LET b == data[i] IN
         IF b < 128 THEN Defect(data, i + 1)
         ELSE IF IsContinuation(b) \/ b >= 248 THEN "invalid start byte"
         ELSE IF b > 244 THEN "lead above 0xF4"
         ELSE IF \E j \in 1..(LeadSize(b) - 1) :
                    i + j > Len(data) \/ ~IsContinuation(data[i + j])
              THEN "truncated"
         ELSE IF \/ b \in {192, 193}
                 \/ b = 224 /\ data[i + 1] < 160
                 \/ b = 240 /\ data[i + 1] < 144
              THEN "overlong"
         ELSE Defect(data, i + LeadSize(b))

\* C30: isValidUTF8 returns false for every byte sequence that contains an
\* overlong encoding of any length, an invalid start byte, a 4-byte lead
\* above 0xF4 or a truncated multi-byte sequence.
C30_RejectsMalformedUTF8 ==
    (utfIn.set /\ Defect(utfIn.data, 1) # "none") => ~utfOut

(***************************************************************************)
(* SpecDaemon: Daemon.Start and Daemon.Stop, one action per step of the    *)
(* code between two points where another goroutine can run.                *)
(***************************************************************************)

\* A call returns: its result, and what Status and the files show then.
DaemonReturn(c, result, d) ==
    dmnCall' = [dmnCall EXCEPT ![c].pc = "idle", ![c].result = result,
                               ![c].after = Snapshot(d)]

DaemonGoto(c, pc) == dmnCall' = [dmnCall EXCEPT ![c].pc = pc]

\* listener.Close() on a Unix listener made by net.Listen unlinks its path.
ListenerClose(d) == [d EXCEPT !.listener = "closed", !.sock = FALSE]

\* cleanup(): os.Remove of the PID file and of the socket path.
cleanup(d) == [d EXCEPT !.pid = FALSE, !.sock = FALSE]

\* A goroutine calls Start or Stop.
DaemonCall(c) ==
    /\ ~daemon.panicked
    /\ dmnCall[c].pc = "idle"
    /\ \E op \in {"start", "stop"} :
         dmnCall' = [dmnCall EXCEPT ![c] = [IdleDaemonCall EXCEPT !.op = op, !.pc = "lock"]]
    /\ UNCHANGED daemon
    /\ OnlyDaemon

StartLock_RejectCleansUp(c) ==
    /\ ~daemon.panicked
    /\ dmnCall[c].op = "start" /\ dmnCall[c].pc = "lock"
    /\ IF daemon.running
       THEN /\ daemon' = cleanup(daemon)
            /\ dmnCall' = [dmnCall EXCEPT ![c].pc = "idle",
                              ![c].result = "already running",
                              ![c].before = Snapshot(daemon),
                              ![c].after = Snapshot(daemon')]
       ELSE /\ daemon' = [daemon EXCEPT !.running = TRUE, !.stops = 0]
            /\ DaemonGoto(c, "listen")
    /\ OnlyDaemon

\* Start, under d.mu: refuse when running, else set running.
StartLock(c) ==
    /\ ~daemon.panicked
    /\ dmnCall[c].op = "start" /\ dmnCall[c].pc = "lock"
    /\ IF daemon.running
       THEN /\ daemon' = daemon
            /\ dmnCall' = [dmnCall EXCEPT ![c].pc = "idle",
                              ![c].result = "already running",
                              ![c].before = Snapshot(daemon),
                              ![c].after = Snapshot(daemon')]
       ELSE /\ daemon' = [daemon EXCEPT !.running = TRUE, !.stops = 0]
            /\ DaemonGoto(c, "listen")
    /\ OnlyDaemon

\* os.Remove(SocketPath), then net.Listen("unix", SocketPath).
StartListen(c) ==
    /\ ~daemon.panicked
    /\ dmnCall[c].op = "start" /\ dmnCall[c].pc = "listen"
    /\ \E ok \in BOOLEAN :
         IF ok
         THEN /\ daemon' = [daemon EXCEPT !.sock = TRUE, !.listener = "open"]
              /\ DaemonGoto(c, "chmod")
         ELSE /\ daemon' = [daemon EXCEPT !.sock = FALSE]
              /\ DaemonReturn(c, "listen", daemon')
    /\ OnlyDaemon

\* os.Chmod(SocketPath, 0600); on failure listener.Close() and return.
StartChmod(c) ==
    /\ ~daemon.panicked
    /\ dmnCall[c].op = "start" /\ dmnCall[c].pc = "chmod"
    /\ \E ok \in BOOLEAN :
         IF ok
         THEN /\ UNCHANGED daemon
              /\ DaemonGoto(c, "pidfile")
         ELSE /\ daemon' = ListenerClose(daemon)
              /\ DaemonReturn(c, "chmod", daemon')
    /\ OnlyDaemon

\* writePIDFile(); on failure listener.Close() and return.
StartWritePID(c) ==
    /\ ~daemon.panicked
    /\ dmnCall[c].op = "start" /\ dmnCall[c].pc = "pidfile"
    /\ \E ok \in BOOLEAN :
         IF ok
         THEN /\ daemon' = [daemon EXCEPT !.pid = TRUE]
              /\ DaemonGoto(c, "onStart")
         ELSE /\ daemon' = ListenerClose(daemon)
              /\ DaemonReturn(c, "pidfile", daemon')
    /\ OnlyDaemon

\* d.onStart(); on failure cleanup() and return; else serve and return nil.
StartCallback(c) ==
    /\ ~daemon.panicked
    /\ dmnCall[c].op = "start" /\ dmnCall[c].pc = "onStart"
    /\ \E ok \in BOOLEAN :
         IF ok
         THEN /\ UNCHANGED daemon
              /\ DaemonReturn(c, "ok", daemon)
         ELSE /\ daemon' = cleanup(daemon)
              /\ DaemonReturn(c, "onStart", daemon')
    /\ OnlyDaemon

\* Stop, under d.mu: refuse when not running; the lock is released before
\* anything is stopped.
StopLock(c) ==
    /\ ~daemon.panicked
    /\ dmnCall[c].op = "stop" /\ dmnCall[c].pc = "lock"
    /\ IF daemon.running
       THEN DaemonGoto(c, "onStop")
       ELSE DaemonReturn(c, "not running", daemon)
    /\ UNCHANGED daemon
    /\ OnlyDaemon

\* d.onStop(); stops counts the runs that returned nil since running was set.
StopCallback(c) ==
    /\ ~daemon.panicked
    /\ dmnCall[c].op = "stop" /\ dmnCall[c].pc = "onStop"
    /\ \E ok \in BOOLEAN :
         IF ok
         THEN /\ daemon' = [daemon EXCEPT !.stops = @ + 1]
              /\ DaemonGoto(c, "shutdown")
         ELSE /\ UNCHANGED daemon
              /\ DaemonReturn(c, "onStop", daemon)
    /\ OnlyDaemon

\* d.server.Shutdown(ctx), then cleanup().
StopShutdown(c) ==
    /\ ~daemon.panicked
    /\ dmnCall[c].op = "stop" /\ dmnCall[c].pc = "shutdown"
    /\ daemon' = cleanup(IF daemon.listener = "open" THEN ListenerClose(daemon) ELSE daemon)
    /\ DaemonGoto(c, "finish")
    /\ OnlyDaemon

\* Under d.mu: running = false; close(d.stopCh), which panics on a closed
\* channel.
StopFinish(c) ==
    /\ ~daemon.panicked
    /\ dmnCall[c].op = "stop" /\ dmnCall[c].pc = "finish"
    /\ IF daemon.stopCh = "closed"
       THEN /\ daemon' = [daemon EXCEPT !.running = FALSE, !.panicked = TRUE]
            /\ DaemonReturn(c, "panic", daemon')
       ELSE /\ daemon' = [daemon EXCEPT !.running = FALSE, !.stopCh = "closed"]
            /\ DaemonReturn(c, "ok", daemon')
    /\ OnlyDaemon

InitDaemon == Constructed

NextDaemon ==
    \E c \in DaemonCallers :
        \/ DaemonCall(c)
        \/ StartLock(c)
        \/ StartListen(c)
        \/ StartChmod(c)
        \/ StartWritePID(c)
        \/ StartCallback(c)
        \/ StopLock(c)
        \/ StopCallback(c)
        \/ StopShutdown(c)
        \/ StopFinish(c)

SpecDaemon == InitDaemon /\ [][NextDaemon]_vars

\* C31: a Start that finds the daemon running returns the already-running
\* error and changes nothing: the daemon is still reported as running, and
\* the PID file and the control socket are as they were before the call.
C31_DoubleStartLeavesDaemonUntouched ==
    \A c \in DaemonCallers :
        (dmnCall[c].op = "start" /\ dmnCall[c].result = "already running")
            => /\ dmnCall[c].after = dmnCall[c].before
               /\ dmnCall[c].after.running

\* A second Start was refused on a started daemon whose files are in place.
C31_Witness ==
    \E c \in DaemonCallers :
        /\ dmnCall[c].op = "start" /\ dmnCall[c].result = "already running"
        /\ dmnCall[c].after.pid /\ dmnCall[c].after.sock
        /\ \E o \in DaemonCallers \ {c} :
             dmnCall[o].op = "start" /\ dmnCall[o].result = "ok"

\* C36: under concurrent Stop calls on a running daemon the stop callback
\* runs at most once, the stop channel is closed once, and no call panics.
C36_ConcurrentStopStopsOnce ==
    /\ daemon.stops <= 1
    /\ ~daemon.panicked

\* C37: a Start that returns an error leaves the daemon not running, with
\* no PID file and no control socket.
C37_FailedStartLeavesNotRunning ==
    \A c \in DaemonCallers :
        (dmnCall[c].op = "start" /\ dmnCall[c].result \in StartErrors)
            => /\ ~dmnCall[c].after.running
               /\ ~dmnCall[c].after.pid
               /\ ~dmnCall[c].after.sock

(***************************************************************************)
(* SpecOpen: NewDatabaseTrafficStore from its call of ensureDefaultProxy.  *)
(* The schema makes orgs.slug unique and proxies (slug, org) unique, so an *)
(* insert of a second row with the same key fails.                         *)
(***************************************************************************)
\* NewDatabaseTrafficStore, up to the call of ensureDefaultProxy.
OpenStore(o) ==
    /\ opener[o].pc \in {"idle", "opened", "failed"}
    /\ opener' = [opener EXCEPT ![o] = [IdleOpener EXCEPT !.pc = "queryOrg"]]
    /\ UNCHANGED openDb
    /\ OnlyOpen

\* ensureDefaultOrg: client.Org.Query().Where(slug = "default").Only(ctx).
QueryOrg(o) ==
    /\ opener[o].pc = "queryOrg"
    /\ opener' = [opener EXCEPT ![o] =
                    IF openDb.orgs > 0
                    THEN [@ EXCEPT !.pc = "queryProxy", !.org = 1]
                    ELSE [@ EXCEPT !.pc = "createOrg"]]
    /\ UNCHANGED openDb
    /\ OnlyOpen

\* ensureDefaultOrg: client.Org.Create()...Save(ctx); an error is returned
\* through ensureDefaultProxy and fails the open.
CreateOrg(o) ==
    /\ opener[o].pc = "createOrg"
    /\ IF openDb.orgs > 0
       THEN /\ opener' = [opener EXCEPT ![o].pc = "failed", ![o].err = "constraint"]
            /\ UNCHANGED openDb
       ELSE /\ openDb' = [openDb EXCEPT !.orgs = 1]
            /\ opener' = [opener EXCEPT ![o].pc = "queryProxy", ![o].org = 1]
    /\ OnlyOpen

\* ensureDefaultProxy: client.Proxy.Query().Where(name = name).Only(ctx).
QueryProxy(o) ==
    /\ opener[o].pc = "queryProxy"
    /\ opener' = [opener EXCEPT ![o] =
                    IF openDb.proxies > 0
                    THEN [@ EXCEPT !.pc = "opened", !.proxyID = 1, !.err = "nil"]
                    ELSE [@ EXCEPT !.pc = "createProxy"]]
    /\ UNCHANGED openDb
    /\ OnlyOpen

\* ensureDefaultProxy: client.Proxy.Create().SetName(name).SetSlug(name)
\* .SetOrg(org).Save(ctx).
CreateProxy(o) ==
    /\ opener[o].pc = "createProxy"
    /\ IF openDb.proxies > 0
       THEN /\ opener' = [opener EXCEPT ![o].pc = "failed", ![o].err = "constraint"]
            /\ UNCHANGED openDb
       ELSE /\ openDb' = [openDb EXCEPT !.proxies = 1]
            /\ opener' = [opener EXCEPT ![o].pc = "opened", ![o].proxyID = 1,
                                        ![o].err = "nil"]
    /\ OnlyOpen

InitOpen == Constructed

NextOpen ==
    \E o \in Openers :
        \/ OpenStore(o)
        \/ QueryOrg(o)
        \/ CreateOrg(o)
        \/ QueryProxy(o)
        \/ CreateProxy(o)

SpecOpen == InitOpen /\ [][NextOpen]_vars

\* C38: every open of a store, also one concurrent with another open of the
\* same database, ends with the store opened on the one proxy row of the
\* configured name: the row is created if absent and reused if present.
C38_OpenLeavesOneProxyRow ==
    /\ openDb.proxies <= 1
    /\ \A o \in Openers :
         opener[o].pc \in {"opened", "failed"}
            => /\ opener[o].pc = "opened"
               /\ openDb.proxies = 1
               /\ opener[o].proxyID = 1

=============================================================================
